---- MODULE Spec2Model ----
(***************************************************************************)
(* A model of bun-smtp: the two-mode wire parser (src/src/smtp-parser.ts), *)
(* the per-connection state machine (src/src/connection.ts) and the SASL   *)
(* handlers (auth.ts, second half of src/src/smtp-parser.ts).              *)
(*                                                                         *)
(* Bytes are modelled as strings.  CR, LF and DOT are the three bytes the  *)
(* parser looks at; every other symbol stands for a byte (or, in the       *)
(* connection model, for the run of bytes of one command word) that is     *)
(* none of these three.                                                    *)
(***************************************************************************)
EXTENDS Integers, Sequences, FiniteSets, TLC

\* ---- Bounds of the model -------------------------------------------------

\* longest body string drawn without a forced terminator
MaxFree == 5
\* longest string before / after the forced terminator of a drawn body
MaxPre == 3
MaxPost == 2
\* the non-zero size limit the parser harness is started with
MaxSize == 2
\* the number of chunks the client of the connection model sends
MaxChunks == 4
\* the number of close events a socket delivers at most
MaxCloseEvents == 2
\* the socketTimeout option, in ticks of the clock, and the last tick
SocketTimeout == 2
MaxTime == 3

\* ---- Bytes -----------------------------------------------------------------

CR == "CR"
LF == "LF"
DOT == "."
OTHER_BYTE == "a"

END_SEQ == <<CR, LF, DOT, CR, LF>>
EMPTY_BUFFER == << >>

DataBytes == {CR, LF, DOT, OTHER_BYTE}

VARIABLES
  parser,         \* the SMTPParser instance (ctx.parser in the connection model)
  harness,        \* the parser's caller when the parser is driven alone
  server,         \* the ServerInstance: its options and its closing flag
  ctx,            \* the ConnectionContext
  session,        \* ctx.session
  pendingChunks,  \* ctx.pendingChunks
  drain,          \* the drainChunks coroutine of the connection
  calls,          \* what the connection waits on outside itself
  trace           \* history: what was written, and for which line

connVars == <<server, ctx, session, pendingChunks, drain, calls, trace>>
vars == <<parser, harness, server, ctx, session, pendingChunks, drain, calls, trace>>

\* ---- Helpers ---------------------------------------------------------------

\* buf[i], 0-based as in the source
At(buf, i) == buf[i + 1]
\* buf.subarray(a, b): bytes a .. b-1, 0-based
Sub(buf, a, b) == SubSeq(buf, a + 1, b)
Min(a, b) == IF a < b THEN a ELSE b

\* buf.indexOf(byte, pos); -1 when absent
IndexOf(buf, byte, pos) ==
  LET hits == {i \in pos .. Len(buf) - 1 : At(buf, i) = byte}
  IN IF hits = {} THEN -1 ELSE CHOOSE i \in hits : \A j \in hits : i <= j

RECURSIVE Flatten(_)
Flatten(chunks) ==
  IF chunks = << >> THEN << >> ELSE Head(chunks) \o Flatten(Tail(chunks))

RECURSIVE SeqsUpTo(_, _)
\* all sequences over S of length <= n
SeqsUpTo(S, n) ==
  IF n = 0 THEN {<< >>}
  ELSE LET shorter == SeqsUpTo(S, n - 1)
       IN shorter \cup {Append(s, b) : s \in shorter, b \in S}

\* ---- SMTPParser ------------------------------------------------------------

\* _dataMaxBytes is a number or Infinity
Infinity == [finite |-> FALSE, n |-> 0]
Finite(n) == [finite |-> TRUE, n |-> n]

\* new SMTPParser()
NewParser ==
  [ remainder    |-> << >>,      \* _remainder (null is the empty buffer)
    lastBytes    |-> << >>,      \* _lastBytes
    dataMode     |-> FALSE,
    dataBytes    |-> 0,
    dataMaxBytes |-> Infinity,
    callbacks    |-> FALSE,      \* _callbacks # null
    isClosed     |-> FALSE ]

RECURSIVE SplitLines(_, _, _)
\* the loop of feedCommandMode: the lines found from pos on, and the final pos
SplitLines(buf, pos, lines) ==
  LET nl == IndexOf(buf, LF, pos)
  IN IF nl = -1 THEN [lines |-> lines, pos |-> pos]
     ELSE LET end == IF nl > pos /\ At(buf, nl - 1) = CR THEN nl - 1 ELSE nl
          IN SplitLines(buf, nl + 1, Append(lines, Sub(buf, pos, end)))

\* a feedCommandMode that forgets the unterminated tail of the chunk before
FeedCommandModeWithoutRemainder(p, chunk) ==
  IF p.isClosed \/ p.dataMode THEN [p |-> p, lines |-> << >>]
  ELSE LET r == SplitLines(chunk, 0, << >>)
       IN [ p     |-> [p EXCEPT !.remainder =
                         IF r.pos < Len(chunk) THEN Sub(chunk, r.pos, Len(chunk))
                         ELSE << >>],
            lines |-> r.lines ]

\* feedCommandMode(chunk): the new parser and the complete lines
FeedCommandMode(p, chunk) ==
  IF p.isClosed \/ p.dataMode THEN [p |-> p, lines |-> << >>]
  ELSE LET buf == p.remainder \o chunk
           r   == SplitLines(buf, 0, << >>)
       IN [ p     |-> [p EXCEPT !.remainder =
                         IF r.pos < Len(buf) THEN Sub(buf, r.pos, Len(buf)) ELSE << >>],
            lines |-> r.lines ]

\* flush(): the unterminated remainder as a last line
Flush(p) ==
  IF Len(p.remainder) > 0 /\ ~p.isClosed
  THEN [p |-> [p EXCEPT !.remainder = << >>], lines |-> <<p.remainder>>]
  ELSE [p |-> p, lines |-> << >>]

\* (maxBytes && Number(maxBytes)) || Infinity
DataMaxBytes(maxBytes) == IF maxBytes # 0 THEN Finite(maxBytes) ELSE Infinity

\* a parser whose limit is reached by a body of exactly the maximum
SizeExceededAtLimit(byteLength, max) == max.finite /\ byteLength >= max.n

\* byteLength > this._dataMaxBytes
SizeExceeded(byteLength, max) == max.finite /\ byteLength > max.n

\* What one call into the data stream did: the parser after it and the
\* callbacks it made, in order: onData(emits[1]), onData(emits[2]), ...,
\* then, if ended, onDataEnd(byteLength, sizeExceeded) and, if remCalled,
\* onDataRemainder(rem).
NoCalls(p) ==
  [ p |-> p, emits |-> << >>, ended |-> FALSE, byteLength |-> 0,
    sizeExceeded |-> FALSE, remCalled |-> FALSE, rem |-> << >> ]

\* if (buf.length > 0) { this._dataBytes += buf.length; this._callbacks.onData(buf) }
Emit(p, emits, buf) ==
  IF Len(buf) > 0
  THEN [p |-> [p EXCEPT !.dataBytes = @ + Len(buf)], emits |-> Append(emits, buf)]
  ELSE [p |-> p, emits |-> emits]

\* _endDataMode(dataChunk, remainder)
EndDataMode(p, emits, dataChunk, remainder) ==
  IF ~p.callbacks THEN [NoCalls(p) EXCEPT !.emits = emits]
  ELSE LET e == Emit(p, emits, dataChunk)
           byteLength == e.p.dataBytes
       IN [ p |-> [e.p EXCEPT !.dataMode = FALSE, !.dataBytes = 0,
                              !.lastBytes = << >>, !.callbacks = FALSE],
            emits |-> e.emits,
            ended |-> TRUE,
            byteLength |-> byteLength,
            sizeExceeded |-> SizeExceeded(byteLength, e.p.dataMaxBytes),
            remCalled |-> Len(remainder) > 0,
            rem |-> remainder ]

\* the tail of _feedDataStream: no terminator or escape found
KeepTail(p, emits, chunk, start) ==
  LET remaining == Sub(chunk, start, Len(chunk))
      keepLen == Min(4, Len(remaining))
      emitLen == Len(remaining) - keepLen
      e == Emit(p, emits, Sub(remaining, 0, emitLen))
  IN [NoCalls([e.p EXCEPT !.lastBytes = Sub(remaining, emitLen, Len(remaining))])
        EXCEPT !.emits = e.emits]

\* the first index the main scan looks at
ScanFrom(start) == start + 2

RECURSIVE Scan(_, _, _, _, _)
\* the main scan of _feedDataStream, at index i with the current start
Scan(p, emits, chunk, start, i) ==
  IF i >= Len(chunk) - 2 THEN KeepTail(p, emits, chunk, start)
  ELSE IF At(chunk, i) = DOT /\ At(chunk, i - 1) = LF
       THEN IF Sub(chunk, i - 2, i + 3) = END_SEQ
            THEN EndDataMode(p, emits, Sub(chunk, start, i), Sub(chunk, i + 3, Len(chunk)))
            ELSE IF At(chunk, i + 1) = DOT
                 THEN LET e == Emit(p, emits, Sub(chunk, start, i))
                      IN Scan(e.p, e.emits, chunk, i + 1, ScanFrom(i + 1))
                 ELSE Scan(p, emits, chunk, start, i + 1)
       ELSE Scan(p, emits, chunk, start, i + 1)

\* the start offset after the "escape dot at the very start" edge case
FirstStart(p, chunk) ==
  IF p.dataBytes = 0 /\ Len(chunk) >= 2 /\ At(chunk, 0) = DOT /\ At(chunk, 1) = DOT
  THEN 1 ELSE 0

\* _feedDataStream(chunk)
FeedDataStream(p0, chunk0) ==
  IF ~p0.callbacks THEN NoCalls(p0)
  ELSE LET chunk == p0.lastBytes \o chunk0
           p == [p0 EXCEPT !.lastBytes = << >>]
           len == Len(chunk)
       IN IF p.dataBytes = 0 /\ len >= 3
             /\ At(chunk, 0) = DOT /\ At(chunk, 1) = CR /\ At(chunk, 2) = LF
          THEN EndDataMode(p, << >>, EMPTY_BUFFER, Sub(chunk, 3, len))
          ELSE LET start == FirstStart(p, chunk)
               IN Scan(p, << >>, chunk, start, ScanFrom(start))

\* startDataMode(maxBytes, callbacks)
StartDataMode(p, maxBytes) ==
  LET q == [p EXCEPT !.dataMode = TRUE, !.dataBytes = 0,
                     !.dataMaxBytes = DataMaxBytes(maxBytes),
                     !.lastBytes = << >>, !.callbacks = TRUE]
  IN IF Len(q.remainder) > 0
     THEN FeedDataStream([q EXCEPT !.remainder = << >>], q.remainder)
     ELSE NoCalls(q)

\* feedDataMode(chunk)
FeedDataMode(p, chunk) ==
  IF ~p.dataMode \/ p.isClosed THEN NoCalls(p) ELSE FeedDataStream(p, chunk)

\* ---- The connection: lines, options, initial state --------------------------

\* One line of the client, standing for its bytes up to the CRLF
EHLO_LINE == "EHLO host"
MAIL_LINE == "MAIL FROM:<a@b>"
MAIL_8BIT_LINE == "MAIL FROM:<a@b> BODY=8BITMIME"
MAIL_BINARY_LINE == "MAIL FROM:<a@b> BODY=BINARY"
MAIL_SIZE_LINE == "MAIL FROM:<a@b> SIZE=9 BODY=8BITMIME"
RCPT_LINE == "RCPT TO:<c@d>"
DATA_LINE == "DATA"
NOOP_LINE == "NOOP"
QUIT_LINE == "QUIT"
STARTTLS_LINE == "STARTTLS"
RSET_LINE == "RSET"
RCPT_UPPER_LINE == "RCPT TO:<C@D>"
\* a command the server has no handler for
FOO_LINE == "FOO"
AUTH_PLAIN_LINE == "AUTH PLAIN AGEAYg=="
AUTH_LOGIN_LINE == "AUTH LOGIN"
AUTH_CRAM_LINE == "AUTH CRAM-MD5"
\* AUTH XOAUTH2 with a token that holds a user and a bearer token
AUTH_XOAUTH2_LINE == "AUTH XOAUTH2 dXNlcj0="
XOAUTH2_TOKEN_LINE == "dXNlcj0="
\* HELO without a host name
HELO_LINE == "HELO"
XCLIENT_LINE == "XCLIENT LOGIN=user"
TOKEN_LINE == "AGEAYg=="
\* the start of a line, up to and with its first space, that the client sends
\* in plaintext only, and the rest of a line that it sends over TLS only
PLAIN_PART == "NOOP "
TLS_PART == "x"

Line(w) == <<w, CR, LF>>
BODY_END == <<OTHER_BYTE, CR, LF, DOT, CR, LF>>
\* seven bytes of a message body, no line end among them
BODY_LONG == <<OTHER_BYTE, OTHER_BYTE, OTHER_BYTE, OTHER_BYTE, OTHER_BYTE,
               OTHER_BYTE, OTHER_BYTE>>

\* the chunks the client may send
ClientChunks ==
  { Line(EHLO_LINE), Line(MAIL_LINE), Line(RCPT_LINE), Line(DATA_LINE),
    Line(AUTH_PLAIN_LINE), Line(AUTH_LOGIN_LINE), Line(AUTH_CRAM_LINE),
    Line(TOKEN_LINE), Line(STARTTLS_LINE), Line(QUIT_LINE),
    BODY_END, BODY_END \o Line(NOOP_LINE),
    Line(EHLO_LINE) \o Line(MAIL_LINE) \o Line(RCPT_LINE) \o Line(DATA_LINE) }

\* the keys of HANDLERS
HANDLERS ==
  { "EHLO", "HELO", "STARTTLS", "AUTH", "MAIL", "RCPT", "DATA", "RSET", "NOOP",
    "QUIT", "VRFY", "HELP", "XCLIENT", "XFORWARD", "WIZ", "SHELL", "KILL" }
\* a server that lets AUTH through before EHLO
HeloCommandsWithoutAuth == {"MAIL", "RCPT", "DATA"}
COMMANDS_REQUIRING_HELO == {"MAIL", "RCPT", "DATA", "AUTH"}
SKIPPED_ENHANCED_COMMANDS == {"HELO", "EHLO", "LHLO"}
COMMANDS_REQUIRING_AUTH == {"MAIL", "RCPT", "DATA"}
\* the methods the AUTH handler has a SASL function for
SaslMethods == {"PLAIN", "LOGIN", "CRAM-MD5", "XOAUTH2"}

\* the first word of each line of the client, upper-cased
FirstWord ==
  [ w \in {EHLO_LINE, MAIL_LINE, RCPT_LINE, RCPT_UPPER_LINE, DATA_LINE, NOOP_LINE,
           QUIT_LINE, RSET_LINE, STARTTLS_LINE, AUTH_PLAIN_LINE, AUTH_LOGIN_LINE,
           AUTH_CRAM_LINE, AUTH_XOAUTH2_LINE, HELO_LINE, XCLIENT_LINE, PLAIN_PART,
           MAIL_8BIT_LINE, MAIL_BINARY_LINE, MAIL_SIZE_LINE} |->
      CASE w = EHLO_LINE -> "EHLO"
        [] w \in {MAIL_LINE, MAIL_8BIT_LINE, MAIL_BINARY_LINE, MAIL_SIZE_LINE} -> "MAIL"
        [] w = RCPT_LINE -> "RCPT"
        [] w = RCPT_UPPER_LINE -> "RCPT"
        [] w = RSET_LINE -> "RSET"
        [] w = DATA_LINE -> "DATA"
        [] w = NOOP_LINE -> "NOOP"
        [] w = PLAIN_PART -> "NOOP"
        [] w = QUIT_LINE -> "QUIT"
        [] w = STARTTLS_LINE -> "STARTTLS"
        [] w = HELO_LINE -> "HELO"
        [] w = XCLIENT_LINE -> "XCLIENT"
        [] OTHER -> "AUTH" ]

\* commandName of processLine: the line up to its first space, upper-cased
CommandName(line) ==
  IF line = << >> THEN ""
  ELSE IF line[1] \in DOMAIN FirstWord THEN FirstWord[line[1]] ELSE line[1]

\* the second word of an AUTH line, upper-cased, and the words after it
AuthMethod(line) ==
  CASE line[1] = AUTH_PLAIN_LINE -> "PLAIN"
    [] line[1] = AUTH_LOGIN_LINE -> "LOGIN"
    [] line[1] = AUTH_CRAM_LINE -> "CRAM-MD5"
    [] line[1] = AUTH_XOAUTH2_LINE -> "XOAUTH2"
    [] OTHER -> ""
AuthArgs(line) == IF line[1] \in {AUTH_PLAIN_LINE, AUTH_XOAUTH2_LINE} THEN 1 ELSE 0

\* parseAddressCommand(name, line) succeeds
ParsesAs(name, line) ==
  /\ Len(line) = 1
  /\ \/ name = "MAIL FROM"
        /\ line[1] \in {MAIL_LINE, MAIL_8BIT_LINE, MAIL_BINARY_LINE, MAIL_SIZE_LINE}
     \/ name = "RCPT TO" /\ line[1] \in {RCPT_LINE, RCPT_UPPER_LINE}
\* parsed.args of a parsed MAIL line: BODY ("" when absent) and SIZE (0 when
\* absent)
MailArgs(line) ==
  [ BODY |-> CASE line[1] \in {MAIL_8BIT_LINE, MAIL_SIZE_LINE} -> "8BITMIME"
               [] line[1] = MAIL_BINARY_LINE -> "BINARY"
               [] OTHER -> "",
    SIZE |-> IF line[1] = MAIL_SIZE_LINE THEN 9 ELSE 0 ]
\* parsed.address of a parsed RCPT line: the text between the angle brackets
RcptAddress(line) == IF line[1] = RCPT_UPPER_LINE THEN "C@D" ELSE "c@d"
\* String.prototype.toLowerCase on the addresses of the client
ToLowerCase(address) == IF address = "C@D" THEN "c@d" ELSE address

\* decodeB64(token).split("\x00").length = 3
IsPlainToken(line) == line = <<TOKEN_LINE>>
\* decodeB64(token) holds a user= field and an auth=Bearer field
IsXOAuth2Token(line) == line = <<XOAUTH2_TOKEN_LINE>>
\* decodeB64(raw) is not the empty string
DecodesNonEmpty(line) == line # << >> /\ line # <<DOT>>

\* the envelope of resetSession and createContext (of a server that hides DSN)
NewEnvelope == [mailFrom |-> FALSE, rcptTo |-> << >>, bodyType |-> "7bit"]

\* the value false of an option that is otherwise a number
OptionFalse == 0 - 1

\* ctx.maxAllowedUnauthCmds of createContext
MaxAllowedUnauthCmds(options) ==
  IF options.maxAllowedUnauthenticatedCommands = OptionFalse THEN Infinity
  ELSE Finite(options.maxAllowedUnauthenticatedCommands)

\* the defaults of the SMTPServer constructor
DefaultOptions ==
  [ secure |-> FALSE, authMethods |-> {"LOGIN", "PLAIN"}, authOptional |-> FALSE,
    allowInsecureAuth |-> FALSE, size |-> 0,
    maxAllowedUnauthenticatedCommands |-> 10,
    maxClients |-> 0, socketTimeout |-> SocketTimeout,
    hideENHANCEDSTATUSCODES |-> TRUE, lmtp |-> FALSE,
    needsUpgrade |-> FALSE, useXClient |-> FALSE ]

\* the two option sets the server of the connection model is constructed with
ServerOptions ==
  { [DefaultOptions EXCEPT !.allowInsecureAuth = TRUE],
    [DefaultOptions EXCEPT !.authOptional = TRUE] }

\* The SMTPServer.  Its connections are the connection of the model ("ctx")
\* and, when there is one, a second connection ("peer") of which the server
\* reads the closing and closed flags only.
NewServer(options, connections) ==
  [ options |-> options,
    closing |-> FALSE,
    listening |-> TRUE,        \* _listener is set: listen() has been called
    connections |-> connections,
    peer |-> [opened |-> "peer" \in connections, closing |-> FALSE, closed |-> FALSE],
    closeTimeout |-> FALSE,    \* _closeTimeout is armed
    closeCheckFn |-> FALSE,    \* _closeCheckFn is set
    closeScheduled |-> FALSE,  \* the setImmediate of close() is pending
    closeEmitted |-> 0 ]       \* 'close' events emitted (and callbacks called)

\* computeTransmissionType(ctx), s being ctx.session
computeTransmissionType(c, s) ==
  LET base == IF server.options.lmtp THEN "LMTP" ELSE "SMTP"
      type == IF c.openingCommand \in {"EHLO", "LHLO"} THEN "E" \o base ELSE base
      typeS == IF c.secure THEN type \o "S" ELSE type
  IN IF s.user THEN typeS \o "A" ELSE typeS

\* a resetSession that also forgets the authenticated user
ResetSessionClearingUser(c, s) ==
  [s EXCEPT !.openingCommand = c.openingCommand,
            !.hostNameAppearsAs = c.hostNameAppearsAs,
            !.transmissionType = computeTransmissionType(c, s),
            !.envelope = NewEnvelope,
            !.transaction = c.transactionCounter + 1,
            !.user = FALSE]

\* a resetSession that leaves the envelope as it is
ResetSessionKeepingEnvelope(c, s) ==
  [s EXCEPT !.openingCommand = c.openingCommand,
            !.hostNameAppearsAs = c.hostNameAppearsAs,
            !.transmissionType = computeTransmissionType(c, s),
            !.transaction = c.transactionCounter + 1]

\* resetSession(ctx)
ResetSession(c, s) ==
  [s EXCEPT !.openingCommand = c.openingCommand,
            !.hostNameAppearsAs = c.hostNameAppearsAs,
            !.transmissionType = computeTransmissionType(c, s),
            !.envelope = NewEnvelope,
            !.transaction = c.transactionCounter + 1]

\* createContext(server, socket): the session (of a server that is not LMTP)
NewSession ==
  [ secure |-> FALSE, openingCommand |-> "", hostNameAppearsAs |-> "",
    user |-> FALSE, transaction |-> 1, transmissionType |-> "SMTP",
    envelope |-> NewEnvelope ]

\* ctx.timeoutHandle is null
NoTimer == -1

\* createContext(server, socket): the context
NewContext ==
  [ processing |-> FALSE, ready |-> FALSE, secure |-> FALSE, upgrading |-> FALSE,
    closing |-> FALSE, closed |-> FALSE, nextHandler |-> "none",
    unauthCmds |-> 0, unknownCmds |-> 0, transactionCounter |-> 0,
    openingCommand |-> "", hostNameAppearsAs |-> "",
    dataController |-> FALSE,
    closeScheduled |-> FALSE,      \* a setImmediate(closeSocket) is pending
    timeoutHandle |-> NoTimer,     \* the time the inactivity timer is set for
    lastActivity |-> 0 ]

\* resetTimeout(ctx) at time now
ResetTimeout(c, now) ==
  [c EXCEPT !.lastActivity = now,
            !.timeoutHandle = IF @ = NoTimer THEN now + server.options.socketTimeout
                              ELSE @]

\* drainChunks: not started, running, suspended at an await on an embedding
\* callback, or ended by an exception ("dead"); i counts the chunks handed to
\* processChunk; lines are the lines of the current chunk still to process
IdleDrain == [pc |-> "idle", i |-> 0, lines |-> << >>]

NoCallsPending ==
  [ cb |-> "none",        \* the embedding callback the drain awaits
    n |-> 0,              \* the line it was invoked for
    cmd |-> "",
    arg |-> "",           \* the parsed address handed to onRcptTo, auth.method
                          \* handed to onAuth
    xclient |-> {},       \* the XCLIENT lines whose onAuth has not called back
    onSecure |-> FALSE,   \* onSecure was invoked and has not called back
    stream |-> "none",    \* the DataStream: none, open, closed, errored
    connect |-> "timer",  \* connectionReady: not run yet, awaiting onConnect,
                          \* awaiting onSecure, or done; "unopened" before the
                          \* socket's open event, "refused" when open() ended
                          \* the socket without initConnection
    onClose |-> 0,        \* the number of times onClose has been invoked
    now |-> 0,            \* Date.now(), in ticks
    sizeExceeded |-> FALSE ]  \* stream.sizeExceeded

NoLine == [n |-> 0, cmd |-> "", code |-> 0, handled |-> FALSE, invoked |-> "none",
           threw |-> FALSE, rule |-> ""]

NewTrace ==
  [ arrivals |-> 0,     \* chunks received
    lines |-> 0,        \* lines parsed
    line |-> 0,         \* the line the last written reply answers
    code |-> 0,         \* the code of the last written reply
    enh |-> FALSE,      \* the last written reply carries an enhanced status code
    enhClass |-> 0,     \* the first digit of that enhanced status code, or 0
    last |-> NoLine,    \* the line processed last and what became of it
    maxArr |-> 0,       \* the latest-arrived chunk the parser has been fed
    onDataCalls |-> 0,  \* the number of times onData has been invoked
    respelled |-> FALSE,   \* an accepted RCPT replaced an entry spelled differently
    flushed |-> FALSE,     \* RSET has reset an envelope that had a sender
    onConnect |-> "",      \* what onConnect called back with: accepted, rejected
    onSecure |-> "",       \* what the onSecure of connectionReady called back with
    closeEvents |-> 0,     \* close events the socket has delivered
    arrivedAt |-> 0 - SocketTimeout,  \* when the latest chunk arrived
    timeouts |-> 0,        \* "421 Timeout" replies written
    unknownSeen |-> 0,     \* unrecognised commands answered since the connection
                           \* opened or onData last called back
    xoauth2 |-> "",        \* what onAuth called back with for XOAUTH2 last
    bodyTypeBefore |-> "7bit" ]  \* envelope.bodyType when the MAIL handler that
                                 \* invoked onMailFrom last was entered

ConnInitWith(options, connections) ==
  /\ server = NewServer(options, connections)
  /\ ctx = [NewContext EXCEPT !.secure = options.secure,
                              !.timeoutHandle = options.socketTimeout]
  /\ session = [NewSession EXCEPT !.secure = options.secure]
  /\ pendingChunks = << >>
  /\ drain = IdleDrain
  /\ calls = NoCallsPending
  /\ trace = NewTrace

\* the connection alone on its server
ConnInit(options) == ConnInitWith(options, {"ctx"})

\* ---- The parser driven alone (the README's collectDataMode) ---------------

\* the body strings drawn: every short string, and every string built around
\* one terminator
Bodies ==
  SeqsUpTo(DataBytes, MaxFree)
    \cup {pre \o END_SEQ \o post : pre \in SeqsUpTo(DataBytes, MaxPre),
                                   post \in SeqsUpTo(DataBytes, MaxPost)}

SizeLimits == {0, MaxSize}

NewHarness(body, maxBytes) ==
  [ body |-> body,            \* the bytes the caller will feed
    maxBytes |-> maxBytes,    \* startDataMode's first argument
    started |-> FALSE,
    fed |-> 0,                \* bytes of body fed so far
    feeds |-> 0,              \* feedDataMode calls made
    late |-> FALSE,           \* a feed was made after data mode had ended
    out |-> << >>,            \* Buffer.concat of the chunks passed to onData
    ended |-> FALSE,          \* onDataEnd was called
    byteLength |-> 0,
    sizeExceeded |-> FALSE,
    remCalled |-> FALSE,      \* onDataRemainder was called
    rem |-> << >>,
    lines |-> << >>,          \* the lines the feedCommandMode calls returned
    flushed |-> << >> ]       \* the lines flush() returned

\* the collecting callbacks of collectDataMode applied to one call's result
Collect(h, r) ==
  [h EXCEPT !.out = @ \o Flatten(r.emits),
            !.ended = @ \/ r.ended,
            !.byteLength = IF r.ended THEN r.byteLength ELSE @,
            !.sizeExceeded = IF r.ended THEN r.sizeExceeded ELSE @,
            !.remCalled = @ \/ r.remCalled,
            !.rem = IF r.remCalled THEN r.rem ELSE @]

DataInit ==
  /\ ConnInit(DefaultOptions)
  /\ parser = NewParser
  /\ \E body \in Bodies, maxBytes \in SizeLimits : harness = NewHarness(body, maxBytes)

\* parser.startDataMode(maxBytes, callbacks)
HarnessStart ==
  /\ ~harness.started
  /\ LET r == StartDataMode(parser, harness.maxBytes)
     IN /\ parser' = r.p
        /\ harness' = [Collect(harness, r) EXCEPT !.started = TRUE]
  /\ UNCHANGED connVars

\* parser.feedDataMode(chunk), chunk the next k bytes of the body
HarnessFeed ==
  /\ harness.started
  /\ harness.fed < Len(harness.body)
  /\ \E k \in 1 .. Len(harness.body) - harness.fed :
       LET chunk == Sub(harness.body, harness.fed, harness.fed + k)
           r == FeedDataMode(parser, chunk)
       IN /\ parser' = r.p
          /\ harness' = [Collect(harness, r) EXCEPT !.fed = @ + k, !.feeds = @ + 1,
                                                    !.late = @ \/ ~parser.dataMode]
  /\ UNCHANGED connVars

DataNext == HarnessStart \/ HarnessFeed

SpecData == DataInit /\ [][DataNext]_vars

\* ---- The parser driven alone in command mode (SpecCommand) --------------------

CommandInit ==
  /\ ConnInit(DefaultOptions)
  /\ parser = NewParser
  /\ \E bytes \in SeqsUpTo(DataBytes, MaxFree) : harness = NewHarness(bytes, 0)

\* parser.feedCommandMode(chunk), chunk the next k bytes of the byte string
CommandFeed ==
  /\ harness.fed < Len(harness.body)
  /\ \E k \in 1 .. Len(harness.body) - harness.fed :
       LET chunk == Sub(harness.body, harness.fed, harness.fed + k)
           r == FeedCommandMode(parser, chunk)
       IN /\ parser' = r.p
          /\ harness' = [harness EXCEPT !.fed = @ + k, !.feeds = @ + 1,
                                         !.lines = @ \o r.lines]
  /\ UNCHANGED connVars

\* parser.flush() when the socket closes
CommandFlush ==
  /\ harness.fed = Len(harness.body)
  /\ LET r == Flush(parser)
     IN /\ parser' = r.p
        /\ harness' = [harness EXCEPT !.flushed = @ \o r.lines, !.ended = TRUE]
  /\ UNCHANGED connVars

CommandNext == CommandFeed \/ CommandFlush

SpecCommand == CommandInit /\ [][CommandNext]_vars

\* ---- Properties of the parser driven alone (SpecData) ------------------------

\* the offsets of the dot of every CRLF.CRLF in buf
Terminators(buf) == {i \in 2 .. Len(buf) - 3 : Sub(buf, i - 2, i + 3) = END_SEQ}

\* offset i is the start of a line of buf
LineStart(buf, i) == i = 0 \/ At(buf, i - 1) = LF

RECURSIVE Unstuffed(_, _)
\* buf from offset i on, each '..' at the start of a line replaced by '.'
Unstuffed(buf, i) ==
  IF i >= Len(buf) THEN << >>
  ELSE IF LineStart(buf, i) /\ At(buf, i) = DOT /\ i + 1 < Len(buf) /\ At(buf, i + 1) = DOT
       THEN Unstuffed(buf, i + 1)
       ELSE <<At(buf, i)>> \o Unstuffed(buf, i + 1)

\* the whole body went to feedDataMode as one chunk
SingleChunkFed ==
  harness.started /\ harness.feeds = 1 /\ harness.fed = Len(harness.body)

\* what the calls of the harness so far delivered
Delivered(h) ==
  [out |-> h.out, ended |-> h.ended, byteLength |-> h.byteLength,
   sizeExceeded |-> h.sizeExceeded, remCalled |-> h.remCalled, rem |-> h.rem]

\* what feeding body as a single chunk delivers
SingleChunkResult(body, maxBytes) ==
  LET started == StartDataMode(NewParser, maxBytes)
      h == Collect(NewHarness(body, maxBytes), started)
  IN Delivered(Collect(h, FeedDataMode(started.p, body)))

\* C2: a body fed to data mode as ONE chunk that contains exactly one
\* CRLF.CRLF is delivered as the input up to and including the CRLF before
\* the terminating dot, with each '..' at the start of a line replaced by '.',
\* and onDataRemainder gets exactly the bytes after the terminator (and is not
\* called when there are none).  Bodies that begin with ".CRLF", which the
\* parser takes for the terminator of an empty message, are left aside.
C2_SingleChunkBody ==
  LET body == harness.body
      t == CHOOSE i \in Terminators(body) : TRUE
  IN ( /\ SingleChunkFed
       /\ Cardinality(Terminators(body)) = 1
       /\ Sub(body, 0, 3) # <<DOT, CR, LF>> )
     => /\ harness.ended
        /\ harness.out = Unstuffed(Sub(body, 0, t), 0)
        /\ harness.remCalled = (t + 3 < Len(body))
        /\ harness.rem = Sub(body, t + 3, Len(body))

\* C3: whatever the chunking of a body, once all of it has been fed the
\* concatenated onData output, the byteLength and sizeExceeded given to
\* onDataEnd and the bytes given to onDataRemainder are those of feeding the
\* body as a single chunk.  Chunkings that go on feeding after the parser has
\* left data mode are left aside.
C3_ChunkingInvariance ==
  (harness.started /\ harness.fed = Len(harness.body) /\ ~harness.late)
    => Delivered(harness) = SingleChunkResult(harness.body, harness.maxBytes)

\* C10: when onDataEnd is called, byteLength is the number of bytes passed to
\* onData since startDataMode, and sizeExceeded holds exactly when the
\* configured maximum is not 0 and byteLength is greater than it.
C10_ByteLength ==
  harness.ended =>
    /\ harness.byteLength = Len(harness.out)
    /\ harness.sizeExceeded = (harness.maxBytes # 0 /\ harness.byteLength > harness.maxBytes)

\* C10 happens: a body fed in several chunks ended over the limit, and
\* another ended with no limit configured
C10_Witness ==
  /\ harness.ended /\ harness.feeds >= 2
  /\ harness.maxBytes = MaxSize /\ harness.sizeExceeded
  /\ Len(harness.out) = MaxSize + 1

\* ---- The connection: replies and the chunk queue ----------------------------

Max(a, b) == IF a > b THEN a ELSE b

\* a sendRaw that writes whatever the state of the connection
WritableAlways(c) == TRUE

\* sendRaw(ctx, data) of connection.ts writes unless closed or closing
Writable(c) == ~c.closed /\ ~c.closing

\* buildResponse(ctx, code, ...): a 421 schedules closeSocket
BuildResponse(c, code) ==
  IF code = 421 THEN [c EXCEPT !.closeScheduled = TRUE] ELSE c

\* closeSocket(ctx)
CloseSocket(c) == IF ~c.closed /\ ~c.closing THEN [c EXCEPT !.closing = TRUE] ELSE c

\* the context argument of buildResponse when it is left out, and when it is
\* the value false
NO_CONTEXT == ""
CONTEXT_FALSE == "false"

\* getEnhancedCode(ctx, code, context) is not the empty string: the reply
\* carries an enhanced status code (every code the server replies with is
\* 200 or greater)
getEnhancedCode(code, context) ==
  IF context = CONTEXT_FALSE \/ server.options.hideENHANCEDSTATUSCODES THEN FALSE
  ELSE IF code >= 300 /\ code < 400 THEN FALSE
  ELSE IF context \in SKIPPED_ENHANCED_COMMANDS THEN FALSE
  ELSE TRUE

\* the first digit of ENHANCED_STATUS_CODES[code], 0 when the table has no
\* entry for the code
EnhancedStatusClass(code) ==
  CASE code \in {200, 211, 214, 220, 221, 235, 250, 251, 252, 354} -> 2
    [] code = 334 -> 3
    [] code \in {420, 421, 450, 451, 452, 454} -> 4
    [] code \in {500, 501, 502, 503, 504, 521, 523, 530, 535, 538, 550, 551, 552,
                 553, 554, 555, 556, 557, 558} -> 5
    [] OTHER -> 0

\* the first digit of CONTEXTUAL_STATUS_CODES[context], 0 when the table has
\* no entry for the context
ContextualStatusClass(context) ==
  CASE context \in {"MAIL_FROM_OK", "RCPT_TO_OK", "DATA_OK", "AUTH_SUCCESS"} -> 2
    [] context \in {"MAILBOX_FULL", "SYSTEM_ERROR", "SYSTEM_FULL", "NETWORK_ERROR",
                    "CONNECTION_TIMEOUT"} -> 4
    [] context \in {"AUTH_REQUIRED", "AUTH_INVALID", "POLICY_VIOLATION",
                    "SPAM_REJECTED", "MAILBOX_NOT_FOUND", "MAILBOX_SYNTAX_ERROR"} -> 5
    [] OTHER -> 0

\* the first digit of getEnhancedCode(ctx, code, context), 0 when it is the
\* empty string
EnhancedClass(code, context) ==
  IF ~getEnhancedCode(code, context) THEN 0
  ELSE IF ContextualStatusClass(context) # 0 THEN ContextualStatusClass(context)
  ELSE IF EnhancedStatusClass(code) # 0 THEN EnhancedStatusClass(code)
  ELSE IF code >= 200 /\ code < 300 THEN 2
  ELSE IF code >= 400 /\ code < 500 THEN 4
  ELSE 5

\* the history after sendRaw(ctx, buildResponse(ctx, code, message, context)),
\* the reply to line n
AnsweredIn(tr, c, n, code, context) ==
  IF code # 0 /\ Writable(c)
  THEN [tr EXCEPT !.line = n, !.code = code, !.enh = getEnhancedCode(code, context),
                  !.enhClass = EnhancedClass(code, context),
                  !.last.code = IF tr.last.n = n THEN code ELSE @]
  ELSE tr

\* the history after sendRaw(ctx, <reply code to line n>) of connection.ts:
\* buildResponse without context, or one of the pre-built replies
Answered(tr, c, n, code) == AnsweredIn(tr, c, n, code, NO_CONTEXT)

\* The history after sendRaw(ctx, <reply code to line n>) of auth.ts, which
\* writes to the socket whatever the state of the connection: sendAuthSuccess
\* writes "235 2.7.0 Authentication successful", sendCode the code and the
\* message
AuthAnswered(tr, n, code) ==
  IF code # 0
  THEN [tr EXCEPT !.line = n, !.code = code, !.enh = (code = 235),
                  !.enhClass = IF code = 235 THEN 2 ELSE 0,
                  !.last.code = IF tr.last.n = n THEN code ELSE @]
  ELSE tr

\* the history when processLine takes up line e
Taken(tr, e, rule, handled) ==
  [tr EXCEPT !.last = [n |-> e.n, cmd |-> CommandName(e.line), code |-> 0,
                       handled |-> handled, invoked |-> "none", threw |-> FALSE,
                       rule |-> rule]]

\* the history when a handler invokes the embedding callback cb
Invoked(tr, cb, throws) == [tr EXCEPT !.last.invoked = cb, !.last.threw = throws]

\* drainChunks started by enqueueChunk
StartedDrain == [pc |-> "run", i |-> 0, lines |-> << >>]

\* enqueueChunk(ctx, raw) on the context c, queue q and drain d
EnqueueChunk(c, q, d, raw) ==
  [ ctx |-> [c EXCEPT !.processing = TRUE],
    pendingChunks |-> Append(q, raw),
    drain |-> IF ~c.processing THEN StartedDrain ELSE d ]

\* The parser callbacks the DATA handler passes to startDataMode, applied to
\* what one call into the parser did (r); arr is the arrival number of the
\* chunk that was fed.
OnDataEvents(r, arr, c, q, d, k) ==
  LET c1 == IF r.ended THEN [c EXCEPT !.dataController = FALSE] ELSE c
      k1 == IF r.ended
            THEN [k EXCEPT !.stream = "closed", !.sizeExceeded = r.sizeExceeded]
            ELSE k
      enq == EnqueueChunk(c1, q, d, [bytes |-> r.rem, arr |-> arr, rem |-> TRUE])
  IN IF r.remCalled
     THEN [ctx |-> enq.ctx, pendingChunks |-> enq.pendingChunks,
           drain |-> enq.drain, calls |-> k1]
     ELSE [ctx |-> c1, pendingChunks |-> q, drain |-> d, calls |-> k1]

\* No synchronous code of the connection is running: events of the
\* environment (socket data, timers, embedding callbacks) can be delivered.
QuietPoint == drain.pc # "run"

\* socket.data(socket, chunk), of the plain socket and of the TLS socket.  The
\* client sends nothing during the TLS handshake nor after the server has
\* ended the connection.
Receive(chunks) ==
  /\ QuietPoint
  /\ ~ctx.closed /\ ~ctx.closing /\ ~ctx.upgrading
  /\ trace.arrivals < MaxChunks
  /\ \E bytes \in chunks :
       LET arr == trace.arrivals + 1 IN
       IF parser.dataMode
       THEN LET r == FeedDataMode(parser, bytes)
                ev == OnDataEvents(r, arr, ctx, pendingChunks, drain, calls)
            IN /\ parser' = r.p
               /\ ctx' = ev.ctx
               /\ pendingChunks' = ev.pendingChunks
               /\ drain' = ev.drain
               /\ calls' = ev.calls
               /\ trace' = [trace EXCEPT !.arrivals = arr, !.maxArr = Max(@, arr),
                                          !.arrivedAt = calls.now]
       ELSE LET enq == EnqueueChunk(ctx, pendingChunks, drain,
                                    [bytes |-> bytes, arr |-> arr, rem |-> FALSE])
            IN /\ ctx' = enq.ctx
               /\ pendingChunks' = enq.pendingChunks
               /\ drain' = enq.drain
               /\ trace' = [trace EXCEPT !.arrivals = arr, !.arrivedAt = calls.now]
               /\ UNCHANGED <<parser, calls>>
  /\ UNCHANGED <<harness, server, session>>

\* the client of Spec sends chunks of ClientChunks
SocketData == Receive(ClientChunks)

\* drainChunks takes the next chunk: processChunk(ctx, ctx.pendingChunks[i])
ProcessChunk ==
  /\ drain.pc = "run" /\ drain.lines = << >> /\ drain.i < Len(pendingChunks)
  /\ LET chunk == pendingChunks[drain.i + 1]
         d == [drain EXCEPT !.i = @ + 1]
     IN IF ctx.closed \/ parser.isClosed
        THEN /\ drain' = d
             /\ UNCHANGED <<parser, ctx, pendingChunks, calls, trace>>
        ELSE IF parser.dataMode
        THEN LET r == FeedDataMode(parser, chunk.bytes)
                 ev == OnDataEvents(r, chunk.arr, ResetTimeout(ctx, calls.now),
                                    pendingChunks, d, calls)
             IN /\ parser' = r.p
                /\ ctx' = ev.ctx
                /\ pendingChunks' = ev.pendingChunks
                /\ drain' = ev.drain
                /\ calls' = ev.calls
                /\ trace' = [trace EXCEPT !.maxArr = Max(@, chunk.arr)]
        ELSE LET r == FeedCommandMode(parser, chunk.bytes)
                 numbered == [k \in 1 .. Len(r.lines) |->
                                [n |-> trace.lines + k, line |-> r.lines[k]]]
             IN /\ parser' = r.p
                /\ drain' = [d EXCEPT !.lines = numbered]
                /\ trace' = [trace EXCEPT
                               !.lines = @ + Len(r.lines),
                               !.maxArr = Max(@, chunk.arr)]
                /\ ctx' = ResetTimeout(ctx, calls.now)
                /\ UNCHANGED <<pendingChunks, calls>>
  /\ UNCHANGED <<harness, server, session>>

\* processChunk's line loop: if (ctx.closed) break
LineBreak ==
  /\ drain.pc = "run" /\ drain.lines # << >> /\ ctx.closed
  /\ drain' = [drain EXCEPT !.lines = << >>]
  /\ UNCHANGED <<parser, harness, server, ctx, session, pendingChunks, calls, trace>>

\* drainChunks leaves its loop
DrainDone ==
  /\ drain.pc = "run" /\ drain.lines = << >> /\ drain.i >= Len(pendingChunks)
  /\ pendingChunks' = << >>
  /\ ctx' = [ctx EXCEPT !.processing = FALSE]
  /\ drain' = IdleDrain
  /\ UNCHANGED <<parser, harness, server, session, calls, trace>>

\* ---- The connection: processLine --------------------------------------------

isSupported(command) == command \in HANDLERS

\* the line counts against the limit of unauthenticated commands
CountsUnauth(c, s, cmd) ==
  /\ ~s.user
  /\ isSupported("AUTH")
  /\ ~server.options.authOptional
  /\ cmd # "AUTH"
  /\ MaxAllowedUnauthCmds(server.options).finite

\* a server that leaves DATA out of the commands that require authentication
RequiresAuthNotData(cmd) == cmd \in {"MAIL", "RCPT"}

\* COMMANDS_REQUIRING_AUTH.has(effectiveCommand)
RequiresAuth(cmd) == cmd \in COMMANDS_REQUIRING_AUTH

\* The rule of processLine that decides about the line, the rules tried in
\* the order of the code.  (No line of the client is an HTTP request and the
\* server is not an LMTP server.)
Rule(c, s, line) ==
  LET cmd == CommandName(line) IN
  IF ~c.ready THEN "tooSoon"
  ELSE IF c.upgrading THEN "upgrading"
  ELSE IF c.nextHandler # "none" THEN "nextHandler"
  ELSE IF server.closing THEN "shuttingDown"
  ELSE IF ~isSupported(cmd) THEN "unknown"
  ELSE IF CountsUnauth(c, s, cmd)
          /\ c.unauthCmds + 1 >= MaxAllowedUnauthCmds(server.options).n
       THEN "unauthLimit"
  ELSE IF c.hostNameAppearsAs = "" /\ cmd \in COMMANDS_REQUIRING_HELO THEN "heloFirst"
  ELSE IF ~s.user /\ isSupported("AUTH") /\ RequiresAuth(cmd)
          /\ ~server.options.authOptional
       THEN "authRequired"
  ELSE "handler"

RefusingRules == {"tooSoon", "shuttingDown", "unknown", "unauthLimit", "heloFirst",
                  "authRequired"}

\* the context a refusing rule passes to buildResponse: the command name or none
RefusalContext(rule, cmd) ==
  IF rule \in {"shuttingDown", "unknown", "unauthLimit"} THEN cmd ELSE NO_CONTEXT

\* the reply of a refusing rule
RefusalCode(rule, c) ==
  CASE rule = "tooSoon" -> 421
    [] rule = "shuttingDown" -> 421
    [] rule = "unknown" -> IF c.unknownCmds + 1 >= 10 THEN 421 ELSE 500
    [] rule = "unauthLimit" -> 421
    [] rule = "heloFirst" -> 503
    [] rule = "authRequired" -> 530

\* "Track opening command"
Tracked(r, rule, cmd) ==
  IF rule \notin {"tooSoon", "shuttingDown"} /\ cmd \in {"HELO", "EHLO", "LHLO"}
  THEN [r EXCEPT !.openingCommand = cmd] ELSE r

\* the counters of processLine a line moves before its rule decides
Counted(c, s, rule, cmd) ==
  IF rule = "unknown" THEN [c EXCEPT !.unknownCmds = @ + 1]
  ELSE IF rule \in {"unauthLimit", "heloFirst", "authRequired", "handler"}
          /\ CountsUnauth(c, s, cmd)
       THEN [c EXCEPT !.unauthCmds = @ + 1]
       ELSE c

\* the line loop of processChunk is at a line and goes on
Running == drain.pc = "run" /\ drain.lines # << >> /\ ~ctx.closed
Cur == Head(drain.lines)
Rest == [drain EXCEPT !.lines = Tail(@)]

\* a handler that does not await the promise it created
NotAwaiting(d) == d

\* the handler awaits the promise that the embedding's callback resolves
Awaiting(d) == [d EXCEPT !.pc = "await"]
\* the embedding's callback threw inside the promise executor: the rejection
\* propagates out of processLine, processChunk and drainChunks
Thrown(d) == [d EXCEPT !.pc = "dead"]
\* resolve() / done()
Resolved(d) == IF d.pc = "await" THEN [d EXCEPT !.pc = "run"] ELSE d

\* processLine answers the line itself and returns
ProcessLineRefused ==
  /\ Running
  /\ LET e == Cur
         cmd == CommandName(e.line)
         rule == Rule(ctx, session, e.line)
         code == RefusalCode(rule, ctx)
     IN /\ rule \in RefusingRules
        /\ ctx' = BuildResponse(Counted(Tracked(ctx, rule, cmd), session, rule, cmd), code)
        /\ session' = Tracked(session, rule, cmd)
        /\ trace' = [AnsweredIn(Taken(trace, e, rule, FALSE), ctx, e.n, code,
                                 RefusalContext(rule, cmd))
                       EXCEPT !.unknownSeen = IF rule = "unknown" THEN @ + 1 ELSE @]
  /\ drain' = Rest
  /\ UNCHANGED <<parser, harness, server, pendingChunks, calls>>

\* if (ctx.upgrading) return
ProcessLineUpgrading ==
  /\ Running
  /\ Rule(ctx, session, Cur.line) = "upgrading"
  /\ trace' = Taken(trace, Cur, "upgrading", FALSE)
  /\ drain' = Rest
  /\ UNCHANGED <<parser, harness, server, ctx, session, pendingChunks, calls>>

\* ---- The connection: SASL (auth.ts) -----------------------------------------

\* What one SASL function does with its input: the reply it sends (0: none),
\* the continuation it installs, and whether it invokes onAuth.
SaslResult(code, next, invoke) == [code |-> code, next |-> next, invoke |-> invoke]

ABORT == <<"*">>

\* plainToken(ctx, canAbort, token, done)
plainToken(canAbort, token) ==
  IF canAbort /\ token = ABORT THEN SaslResult(501, "none", FALSE)
  ELSE IF ~IsPlainToken(token) THEN SaslResult(500, "none", FALSE)
  ELSE SaslResult(0, "none", TRUE)

\* loginUsername(ctx, canAbort, raw, done)
loginUsername(canAbort, raw) ==
  IF canAbort /\ raw = ABORT THEN SaslResult(501, "none", FALSE)
  ELSE IF ~DecodesNonEmpty(raw) THEN SaslResult(500, "none", FALSE)
  ELSE SaslResult(334, "loginPassword", FALSE)

\* a password step that takes "*" for a password
loginPasswordNoAbort(raw) == SaslResult(0, "none", TRUE)

\* loginPassword(ctx, username, raw, done)
loginPassword(raw) ==
  IF raw = ABORT THEN SaslResult(501, "none", FALSE)
  ELSE SaslResult(0, "none", TRUE)

\* cramMd5Token(ctx, challenge, canAbort, token, done)
cramMd5Token(canAbort, token) ==
  IF canAbort /\ token = ABORT THEN SaslResult(501, "none", FALSE)
  ELSE SaslResult(0, "none", TRUE)

\* xoauth2Token(ctx, canAbort, token, done)
xoauth2Token(canAbort, token) ==
  IF canAbort /\ token = ABORT THEN SaslResult(501, "none", FALSE)
  ELSE IF ~IsXOAuth2Token(token) THEN SaslResult(500, "none", FALSE)
  ELSE SaslResult(0, "none", TRUE)

\* the continuation ctx.nextHandler applied to a line; xoauth2Error is the
\* one-shot handler installed after a failed XOAUTH2 attempt
Continuation(handler, line) ==
  CASE handler = "plainToken" -> plainToken(TRUE, line)
    [] handler = "loginUsername" -> loginUsername(TRUE, line)
    [] handler = "loginPassword" -> loginPassword(line)
    [] handler = "cramMd5Token" -> cramMd5Token(TRUE, line)
    [] handler = "xoauth2Token" -> xoauth2Token(TRUE, line)
    [] handler = "xoauth2Error" -> SaslResult(535, "none", FALSE)

\* auth.method of the onAuth call a continuation makes
ContinuationMethod(handler) ==
  CASE handler \in {"loginUsername", "loginPassword"} -> "LOGIN"
    [] handler = "cramMd5Token" -> "CRAM-MD5"
    [] handler = "xoauth2Token" -> "XOAUTH2"
    [] OTHER -> "PLAIN"

\* SASL_PLAIN, SASL_LOGIN, SASL_CRAM_MD5 on an AUTH line; the one argument an
\* AUTH line of the client carries is the token
Sasl(method, args) ==
  CASE method = "PLAIN" ->
         IF args > 1 THEN SaslResult(501, "none", FALSE)
         ELSE IF args = 0 THEN SaslResult(334, "plainToken", FALSE)
         ELSE plainToken(FALSE, <<TOKEN_LINE>>)
    [] method = "LOGIN" ->
         IF args > 1 THEN SaslResult(501, "none", FALSE)
         ELSE IF args = 0 THEN SaslResult(334, "loginUsername", FALSE)
         ELSE loginUsername(FALSE, <<TOKEN_LINE>>)
    [] method = "CRAM-MD5" ->
         IF args > 0 THEN SaslResult(501, "none", FALSE)
         ELSE SaslResult(334, "cramMd5Token", FALSE)
    [] method = "XOAUTH2" ->
         IF args > 1 THEN SaslResult(501, "none", FALSE)
         ELSE IF args = 0 THEN SaslResult(334, "xoauth2Token", FALSE)
         ELSE xoauth2Token(FALSE, <<XOAUTH2_TOKEN_LINE>>)

\* an AUTH handler that asks for TLS before it looks at the method
AuthRefusalTlsFirst(c, s, method) ==
  IF ~server.options.allowInsecureAuth /\ ~c.secure THEN 538
  ELSE IF method \notin server.options.authMethods THEN 504
  ELSE IF s.user THEN 503
  ELSE IF method \notin SaslMethods THEN 504
  ELSE 0

\* The checks of the AUTH handler before it starts the SASL exchange: the
\* code it rejects with, 0 when it goes on
AuthRefusal(c, s, method) ==
  IF method \notin server.options.authMethods THEN 504
  ELSE IF ~server.options.allowInsecureAuth /\ ~c.secure THEN 538
  ELSE IF s.user THEN 503
  ELSE IF method \notin SaslMethods THEN 504
  ELSE 0

\* A SASL function ran for line e: its reply, its continuation, and onAuth
\* either pending or throwing.
SaslStep(e, c, res, rule, handled) ==
  \E throws \in BOOLEAN :
    /\ throws => res.invoke
    /\ ctx' = [c EXCEPT !.nextHandler = res.next]
    /\ trace' = IF res.invoke
                THEN Invoked(Taken(trace, e, rule, handled), "onAuth", throws)
                ELSE AuthAnswered(Taken(trace, e, rule, handled), e.n, res.code)
    /\ calls' = IF res.invoke /\ ~throws
                THEN [calls EXCEPT !.cb = "onAuth", !.n = e.n, !.cmd = "AUTH",
                                   !.arg = IF rule = "handler" THEN AuthMethod(e.line)
                                           ELSE ContinuationMethod(ctx.nextHandler)]
                ELSE calls
    /\ drain' = IF ~res.invoke THEN Rest
                ELSE IF throws THEN Thrown(Rest) ELSE Awaiting(Rest)

\* processLine hands the line to ctx.nextHandler
ProcessLineNextHandler ==
  /\ Running
  /\ Rule(ctx, session, Cur.line) = "nextHandler"
  /\ SaslStep(Cur, ctx, Continuation(ctx.nextHandler, Cur.line), "nextHandler", FALSE)
  /\ UNCHANGED <<parser, harness, server, session, pendingChunks>>

\* ---- The connection: HANDLERS -----------------------------------------------

\* processLine reaches "await handler(ctx, line)" with the handler of cmd
Handles(cmd) ==
  /\ Running
  /\ Rule(ctx, session, Cur.line) = "handler"
  /\ CommandName(Cur.line) = cmd

\* the context and the session when the handler is entered
Entered(cmd) == Counted(Tracked(ctx, "handler", cmd), session, "handler", cmd)
EnteredSession(cmd) == Tracked(session, "handler", cmd)

\* a handler that answers line e with code and returns
Answer(e, c, code) ==
  /\ ctx' = BuildResponse(c, code)
  /\ trace' = Answered(Taken(trace, e, "handler", TRUE), c, e.n, code)
  /\ drain' = Rest

\* a handler that invokes the embedding callback cb for line e and awaits it
Invoke(e, cb, cmd) ==
  \E throws \in BOOLEAN :
    /\ trace' = Invoked(Taken(trace, e, "handler", TRUE), cb, throws)
    /\ calls' = IF throws THEN calls
                ELSE [calls EXCEPT !.cb = cb, !.n = e.n, !.cmd = cmd,
                                   !.arg = IF cb = "onRcptTo" THEN RcptAddress(e.line)
                                           ELSE ""]
    /\ drain' = IF throws THEN Thrown(Rest) ELSE Awaiting(Rest)

\* HANDLERS.EHLO
EHLO ==
  /\ Handles("EHLO")
  /\ LET c == [Entered("EHLO") EXCEPT !.hostNameAppearsAs = "host"]
     IN /\ session' = ResetSession(c, EnteredSession("EHLO"))
        /\ ctx' = c
        /\ trace' = AnsweredIn(Taken(trace, Cur, "handler", TRUE), c, Cur.n, 250,
                               CONTEXT_FALSE)
        /\ drain' = Rest
  /\ UNCHANGED <<parser, harness, server, pendingChunks, calls>>

\* HANDLERS.HELO
HELO ==
  /\ Handles("HELO")
  /\ LET named == [Entered("HELO") EXCEPT !.hostNameAppearsAs = "host"]
     IN IF Cur.line = <<HELO_LINE>>
        THEN /\ Answer(Cur, Entered("HELO"), 501)
             /\ session' = EnteredSession("HELO")
        ELSE /\ session' = ResetSession(named, EnteredSession("HELO"))
             /\ ctx' = named
             /\ trace' = AnsweredIn(Taken(trace, Cur, "handler", TRUE), named, Cur.n,
                                    250, CONTEXT_FALSE)
             /\ drain' = Rest
  /\ UNCHANGED <<parser, harness, server, pendingChunks, calls>>

\* HANDLERS.STARTTLS
STARTTLS ==
  /\ Handles("STARTTLS")
  /\ LET c == Entered("STARTTLS")
     IN IF c.secure
        THEN Answer(Cur, c, 503)
        ELSE /\ ctx' = [c EXCEPT !.upgrading = TRUE]
             /\ trace' = Answered(Taken(trace, Cur, "handler", TRUE), c, Cur.n, 220)
             /\ drain' = Rest
  /\ UNCHANGED <<parser, harness, server, session, pendingChunks, calls>>

\* HANDLERS.AUTH
AUTH ==
  /\ Handles("AUTH")
  /\ LET c == Entered("AUTH")
         method == AuthMethod(Cur.line)
         code == AuthRefusal(c, session, method)
     IN IF code # 0
        THEN /\ Answer(Cur, c, code)
             /\ UNCHANGED calls
        ELSE SaslStep(Cur, c, Sasl(method, AuthArgs(Cur.line)), "handler", TRUE)
  /\ UNCHANGED <<parser, harness, server, session, pendingChunks>>

\* the SIZE check of HANDLERS.MAIL (hideSize is off)
ExceedsSize(args) ==
  server.options.size # 0 /\ args.SIZE # 0 /\ args.SIZE > server.options.size

\* validateMailParams(ctx, parsed): the code it rejects with, 0 when it accepts
validateMailParams(args) ==
  IF args.BODY # "" /\ args.BODY \notin {"7BIT", "8BITMIME"} THEN 501 ELSE 0

\* a MAIL handler that leaves the parameters to the callback
applyMailParamsLater(s, args) == s

\* applyMailParams(ctx, parsed): the session
applyMailParams(s, args) ==
  IF args.BODY # ""
  THEN [s EXCEPT !.envelope.bodyType = IF args.BODY = "7BIT" THEN "7bit" ELSE "8bitmime"]
  ELSE s

\* HANDLERS.MAIL
MAIL ==
  /\ Handles("MAIL")
  /\ LET c == Entered("MAIL")
         args == MailArgs(Cur.line)
         refused(code, context) ==
           /\ ctx' = BuildResponse(c, code)
           /\ trace' = AnsweredIn(Taken(trace, Cur, "handler", TRUE), c, Cur.n, code,
                                  context)
           /\ drain' = Rest
           /\ UNCHANGED <<session, calls>>
     IN IF ~ParsesAs("MAIL FROM", Cur.line)
        THEN refused(501, "MAILBOX_SYNTAX_ERROR")
        ELSE IF session.envelope.mailFrom
        THEN refused(503, NO_CONTEXT)
        ELSE IF ExceedsSize(args)
        THEN refused(552, "SYSTEM_FULL")
        ELSE IF validateMailParams(args) # 0
        THEN refused(validateMailParams(args), NO_CONTEXT)
        ELSE /\ ctx' = c
             /\ session' = applyMailParams(session, args)
             /\ \E throws \in BOOLEAN :
                  /\ trace' = [Invoked(Taken(trace, Cur, "handler", TRUE), "onMailFrom",
                                       throws)
                                 EXCEPT !.bodyTypeBefore = session.envelope.bodyType]
                  /\ calls' = IF throws THEN calls
                              ELSE [calls EXCEPT !.cb = "onMailFrom", !.n = Cur.n,
                                                 !.cmd = "MAIL", !.arg = ""]
                  /\ drain' = IF throws THEN Thrown(Rest) ELSE Awaiting(Rest)
  /\ UNCHANGED <<parser, harness, server, pendingChunks>>

\* HANDLERS.RCPT
RCPT ==
  /\ Handles("RCPT")
  /\ LET c == Entered("RCPT")
     IN IF ~ParsesAs("RCPT TO", Cur.line)
        THEN Answer(Cur, c, 501) /\ UNCHANGED calls
        ELSE IF ~session.envelope.mailFrom
        THEN Answer(Cur, c, 503) /\ UNCHANGED calls
        ELSE ctx' = c /\ Invoke(Cur, "onRcptTo", "RCPT")
  /\ UNCHANGED <<parser, harness, server, session, pendingChunks>>

\* a DATA handler that does not look at the recipient list
NeedsRcptNever(s) == FALSE

\* DATA refuses when the envelope has no recipient
NeedsRcpt(s) == Len(s.envelope.rcptTo) = 0

\* HANDLERS.DATA
DATA ==
  /\ Handles("DATA")
  /\ LET c == Entered("DATA")
     IN IF NeedsRcpt(session)
        THEN /\ Answer(Cur, c, 503)
             /\ UNCHANGED <<parser, pendingChunks, calls>>
        ELSE LET r == StartDataMode(parser, server.options.size)
                 ev == OnDataEvents(r, trace.maxArr,
                                    [c EXCEPT !.dataController = TRUE], pendingChunks,
                                    Rest, [calls EXCEPT !.stream = "open",
                                                        !.sizeExceeded = FALSE])
             IN \E throws \in BOOLEAN :
                  /\ parser' = r.p
                  /\ ctx' = ev.ctx
                  /\ pendingChunks' = ev.pendingChunks
                  /\ calls' = IF throws THEN ev.calls
                              ELSE [ev.calls EXCEPT !.cb = "onData", !.n = Cur.n,
                                                    !.cmd = "DATA"]
                  /\ drain' = IF throws THEN Thrown(ev.drain) ELSE Awaiting(ev.drain)
                  /\ trace' = [Invoked(Answered(Taken(trace, Cur, "handler", TRUE),
                                                c, Cur.n, 354), "onData", throws)
                                 EXCEPT !.onDataCalls = @ + 1]
  /\ UNCHANGED <<harness, server, session>>

\* HANDLERS.RSET
RSET ==
  /\ Handles("RSET")
  /\ LET c == Entered("RSET")
     IN /\ session' = ResetSession(c, EnteredSession("RSET"))
        /\ ctx' = BuildResponse(c, 250)
        /\ trace' = [Answered(Taken(trace, Cur, "handler", TRUE), c, Cur.n, 250)
                       EXCEPT !.flushed = @ \/ session.envelope.mailFrom]
        /\ drain' = Rest
  /\ UNCHANGED <<parser, harness, server, pendingChunks, calls>>

\* HANDLERS.NOOP
NOOP ==
  /\ Handles("NOOP")
  /\ Answer(Cur, Entered("NOOP"), 250)
  /\ UNCHANGED <<parser, harness, server, session, pendingChunks, calls>>

\* HANDLERS.XCLIENT for a line that carries LOGIN alone: onAuth is invoked and
\* the handler goes on to the greeting without its callback.  (No line of the
\* client carries ADDR, so ctx.xClient never has it.)
XCLIENT ==
  /\ Handles("XCLIENT")
  /\ LET c == Entered("XCLIENT")
     IN IF ~server.options.useXClient
        THEN Answer(Cur, c, 550) /\ UNCHANGED calls
        ELSE IF session.envelope.mailFrom
        THEN Answer(Cur, c, 503) /\ UNCHANGED calls
        ELSE \E throws \in BOOLEAN :
               IF throws
               THEN /\ trace' = Invoked(Taken(trace, Cur, "handler", TRUE), "onAuth", TRUE)
                    /\ drain' = Thrown(Rest)
                    /\ UNCHANGED <<ctx, calls>>
               ELSE /\ ctx' = BuildResponse(c, 220)
                    /\ trace' = Invoked(Answered(Taken(trace, Cur, "handler", TRUE),
                                                  c, Cur.n, 220), "onAuth", FALSE)
                    /\ calls' = [calls EXCEPT !.xclient = @ \cup {Cur.n}]
                    /\ drain' = Rest
  /\ UNCHANGED <<parser, harness, server, session, pendingChunks>>

\* HANDLERS.QUIT
QUIT ==
  /\ Handles("QUIT")
  /\ LET c == Entered("QUIT")
     IN /\ ctx' = CloseSocket(c)
        /\ trace' = Answered(Taken(trace, Cur, "handler", TRUE), c, Cur.n, 221)
        /\ drain' = Rest
  /\ UNCHANGED <<parser, harness, server, session, pendingChunks, calls>>

\* ---- The connection: the embedding calls back --------------------------------

\* the history when the embedding's callback for line k.n has run
CalledBack(tr, k, code) ==
  [tr EXCEPT !.last = [n |-> k.n, cmd |-> k.cmd, code |-> code, handled |-> TRUE,
                       invoked |-> k.cb, threw |-> FALSE, rule |-> "callback"]]

Settled(k) == [k EXCEPT !.cb = "none", !.n = 0, !.cmd = "", !.arg = ""]

\* sendAuthSuccess(ctx, user): the session
sendAuthSuccess(c, s) ==
  LET authenticated == [s EXCEPT !.user = TRUE]
  IN [authenticated EXCEPT !.transmissionType = computeTransmissionType(c, authenticated)]

\* the callback the SASL functions pass to onAuth
AuthCallback ==
  /\ QuietPoint
  /\ calls.cb = "onAuth" /\ calls.arg # "XOAUTH2"
  /\ \E accepted \in BOOLEAN :
       LET code == IF accepted THEN 235 ELSE 535 IN
       /\ session' = IF accepted THEN sendAuthSuccess(ctx, session) ELSE session
       /\ trace' = AuthAnswered(CalledBack(trace, calls, code), calls.n, code)
  /\ calls' = Settled(calls)
  /\ drain' = Resolved(drain)
  /\ UNCHANGED <<parser, harness, server, ctx, pendingChunks>>

\* what onAuth may call back with for XOAUTH2: a user, an Error (with or
\* without a response that carries data), or a response without a user (with
\* or without data)
XOAuth2Outcomes == {"user", "error", "errorData", "failed", "failedData"}

\* the callback xoauth2Token passes to onAuth
XOAuth2Callback ==
  /\ QuietPoint
  /\ calls.cb = "onAuth" /\ calls.arg = "XOAUTH2"
  /\ \E outcome \in XOAuth2Outcomes :
       LET code == CASE outcome \in {"error", "errorData"} -> 535
                     [] outcome \in {"failed", "failedData"} -> 334
                     [] OTHER -> 235
       IN /\ session' = IF outcome = "user" THEN sendAuthSuccess(ctx, session)
                         ELSE session
          /\ ctx' = IF outcome \in {"failed", "failedData"}
                     THEN [ctx EXCEPT !.nextHandler = "xoauth2Error"] ELSE ctx
          /\ trace' = [AuthAnswered(CalledBack(trace, calls, code), calls.n, code)
                          EXCEPT !.xoauth2 = outcome]
  /\ calls' = Settled(calls)
  /\ drain' = Resolved(drain)
  /\ UNCHANGED <<parser, harness, server, pendingChunks>>

\* the callback HANDLERS.XCLIENT passes to onAuth, for the XCLIENT of line n
XClientCallback ==
  /\ QuietPoint
  /\ \E n \in calls.xclient, accepted \in BOOLEAN :
       /\ session' = IF accepted THEN sendAuthSuccess(ctx, session) ELSE session
       /\ calls' = [calls EXCEPT !.xclient = @ \ {n}]
  /\ UNCHANGED <<parser, harness, server, ctx, pendingChunks, drain, trace>>

\* the callback HANDLERS.MAIL passes to onMailFrom
MailFromCallback ==
  /\ QuietPoint
  /\ calls.cb = "onMailFrom"
  /\ \E err \in BOOLEAN :
       LET code == IF err THEN 550 ELSE 250 IN
       /\ session' = IF err THEN session ELSE [session EXCEPT !.envelope.mailFrom = TRUE]
       /\ ctx' = IF err THEN BuildResponse(ctx, code) ELSE ctx
       /\ trace' = Answered(CalledBack(trace, calls, IF Writable(ctx) THEN code ELSE 0),
                            ctx, calls.n, code)
  /\ calls' = Settled(calls)
  /\ drain' = Resolved(drain)
  /\ UNCHANGED <<parser, harness, server, pendingChunks>>

\* a RCPT handler that looks for the address as it is spelled
AddRecipientExactMatch(rcptTo, address) ==
  LET found == {i \in 1 .. Len(rcptTo) : rcptTo[i] = address}
  IN IF found # {}
     THEN [rcptTo EXCEPT ![CHOOSE i \in found : \A j \in found : i <= j] = address]
     ELSE Append(rcptTo, address)

\* "Overwrite duplicate recipients"
AddRecipient(rcptTo, address) ==
  LET found == {i \in 1 .. Len(rcptTo) : ToLowerCase(rcptTo[i]) = ToLowerCase(address)}
  IN IF found # {}
     THEN [rcptTo EXCEPT ![CHOOSE i \in found : \A j \in found : i <= j] = address]
     ELSE Append(rcptTo, address)

\* the callback HANDLERS.RCPT passes to onRcptTo
RcptToCallback ==
  /\ QuietPoint
  /\ calls.cb = "onRcptTo"
  /\ \E err \in BOOLEAN :
       LET code == IF err THEN 550 ELSE 250 IN
       /\ session' = IF err THEN session
                     ELSE [session EXCEPT !.envelope.rcptTo =
                             AddRecipient(@, calls.arg)]
       /\ ctx' = IF err THEN BuildResponse(ctx, code) ELSE ctx
       /\ trace' = [Answered(CalledBack(trace, calls, IF Writable(ctx) THEN code ELSE 0),
                             ctx, calls.n, code)
                      EXCEPT !.respelled =
                        @ \/ (~err /\ \E i \in 1 .. Len(session.envelope.rcptTo) :
                                        /\ session.envelope.rcptTo[i] # calls.arg
                                        /\ session'.envelope.rcptTo[i] = calls.arg)]
  /\ calls' = Settled(calls)
  /\ drain' = Resolved(drain)
  /\ UNCHANGED <<parser, harness, server, pendingChunks>>

\* a DATA handler that counts only the transactions onData accepted
TransactionDoneOnSuccess(c, err) ==
  IF err THEN [c EXCEPT !.unknownCmds = 0]
  ELSE [c EXCEPT !.transactionCounter = @ + 1, !.unknownCmds = 0]

\* a DATA handler that leaves the count of unrecognised commands alone
TransactionDoneKeepingCount(c, err) == [c EXCEPT !.transactionCounter = @ + 1]

\* ctx.transactionCounter++; ctx.unknownCmds = 0, whatever onData reported
TransactionDone(c, err) == [c EXCEPT !.transactionCounter = @ + 1, !.unknownCmds = 0]

\* The callback HANDLERS.DATA passes to onData.  The embedding consumes the
\* stream before it calls back: the stream has ended or has errored.
DataCallback ==
  /\ QuietPoint
  /\ calls.cb = "onData"
  /\ calls.stream \in {"closed", "errored"}
  /\ \E err \in BOOLEAN :
       LET code == IF err THEN 450 ELSE 250
           c == TransactionDone(BuildResponse(ctx, code), err)
       IN /\ ctx' = c
          /\ session' = ResetSession(c, session)
          /\ trace' = [Answered(CalledBack(trace, calls, IF Writable(ctx) THEN code ELSE 0),
                                ctx, calls.n, code)
                         EXCEPT !.unknownSeen = 0]
  /\ calls' = [Settled(calls) EXCEPT !.stream = "none", !.sizeExceeded = FALSE]
  /\ drain' = Resolved(drain)
  /\ UNCHANGED <<parser, harness, server, pendingChunks>>

\* ---- The connection: timers and socket events -------------------------------

\* connectionReady(ctx), run by the early-talker timer on a plaintext socket
\* whose onConnect calls back at once and accepts
ConnectionReady ==
  /\ QuietPoint
  /\ calls.connect = "timer"
  /\ ~ctx.ready /\ ~ctx.closing /\ ~ctx.closed /\ ~ctx.secure
  /\ session' = ResetSession(ctx, session)
  /\ ctx' = [ctx EXCEPT !.ready = TRUE]
  /\ calls' = [calls EXCEPT !.connect = "done"]
  /\ trace' = [trace EXCEPT !.code = 220, !.enh = FALSE, !.enhClass = 0, !.onConnect = "accepted"]
  /\ UNCHANGED <<parser, harness, server, pendingChunks, drain>>

\* ctx.ready = true; sendRaw(ctx, <220 greeting>)
Greeted(c, tr) ==
  [ctx |-> [c EXCEPT !.ready = TRUE],
   trace |-> IF Writable(c) THEN [tr EXCEPT !.code = 220, !.enh = FALSE, !.enhClass = 0] ELSE tr]

\* connectionReady(ctx) up to its await on onConnect
ReadyTimer ==
  /\ QuietPoint
  /\ calls.connect = "timer"
  /\ IF ctx.closing \/ ctx.closed
     THEN /\ calls' = [calls EXCEPT !.connect = "done"]
          /\ UNCHANGED session
     ELSE /\ calls' = [calls EXCEPT !.connect = "onConnect"]
          /\ session' = ResetSession(ctx, session)
  /\ UNCHANGED <<parser, harness, server, ctx, pendingChunks, drain, trace>>

\* connectionReady(ctx) from the callback of onConnect to its next await
ConnectCallback ==
  /\ QuietPoint
  /\ calls.connect = "onConnect"
  /\ \E err \in BOOLEAN :
       IF err
       THEN \* .catch: sendRaw(buildResponse(err.responseCode ?? 554)); closeSocket
            /\ ctx' = CloseSocket(BuildResponse(ctx, 554))
            /\ trace' = [(IF Writable(ctx) THEN [trace EXCEPT !.code = 554, !.enh = FALSE, !.enhClass = 0]
                           ELSE trace)
                           EXCEPT !.onConnect = "rejected"]
            /\ calls' = [calls EXCEPT !.connect = "done"]
       ELSE IF ctx.closing \/ ctx.closed
       THEN /\ calls' = [calls EXCEPT !.connect = "done"]
            /\ trace' = [trace EXCEPT !.onConnect = "accepted"]
            /\ UNCHANGED ctx
       ELSE IF ctx.secure
       THEN /\ calls' = [calls EXCEPT !.connect = "onSecure"]
            /\ trace' = [trace EXCEPT !.onConnect = "accepted"]
            /\ UNCHANGED ctx
       ELSE LET g == Greeted(ctx, [trace EXCEPT !.onConnect = "accepted"])
            IN /\ ctx' = g.ctx
               /\ trace' = g.trace
               /\ calls' = [calls EXCEPT !.connect = "done"]
  /\ UNCHANGED <<parser, harness, server, session, pendingChunks, drain>>

\* handleError(ctx, err): a dirty disconnect outside a transaction closes the
\* socket, any other error is emitted as the server's 'error' event
HandleError(c, s, dirty) ==
  IF dirty /\ ~s.envelope.mailFrom THEN CloseSocket(c) ELSE c

\* connectionReady(ctx) from the callback of onSecure (implicit TLS) to its end
InitialSecureCallback ==
  /\ QuietPoint
  /\ calls.connect = "onSecure"
  /\ calls' = [calls EXCEPT !.connect = "done"]
  /\ \E err \in BOOLEAN, dirty \in BOOLEAN :
       /\ dirty => err
       /\ LET c == IF err THEN HandleError(ctx, session, dirty) ELSE ctx
              tr == [trace EXCEPT !.onSecure = IF err THEN "rejected" ELSE "accepted"]
          IN IF c.closing \/ c.closed
             THEN ctx' = c /\ trace' = tr
             ELSE ctx' = Greeted(c, tr).ctx /\ trace' = Greeted(c, tr).trace
  /\ UNCHANGED <<parser, harness, server, session, pendingChunks, drain>>

\* the open() handler STARTTLS passes to upgradeTLS: the handshake completed
TlsOpen ==
  /\ QuietPoint
  /\ ctx.upgrading /\ ~ctx.closed
  /\ ctx' = [ctx EXCEPT !.secure = TRUE, !.upgrading = FALSE]
  /\ session' = [session EXCEPT !.secure = TRUE]
  /\ calls' = [calls EXCEPT !.onSecure = TRUE]
  /\ UNCHANGED <<parser, harness, server, pendingChunks, drain, trace>>

\* the callback that open() passes to onSecure
SecureCallback ==
  /\ QuietPoint
  /\ calls.onSecure
  /\ calls' = [calls EXCEPT !.onSecure = FALSE]
  /\ \E err \in BOOLEAN :
       IF err
       THEN UNCHANGED <<ctx, session, trace>>
       ELSE LET c == [ctx EXCEPT !.hostNameAppearsAs = "", !.openingCommand = ""]
            IN /\ ctx' = c
               /\ session' = ResetSession(c, session)
               /\ trace' = [trace EXCEPT !.last = [NoLine EXCEPT !.cmd = "onSecure"]]
  /\ UNCHANGED <<parser, harness, server, pendingChunks, drain>>

\* the setImmediate(() => closeSocket(ctx)) of buildResponse runs
ImmediateClose ==
  /\ QuietPoint
  /\ ctx.closeScheduled
  /\ ctx' = CloseSocket([ctx EXCEPT !.closeScheduled = FALSE])
  /\ UNCHANGED <<parser, harness, server, session, pendingChunks, drain, calls, trace>>

\* the clock advances
Tick ==
  /\ QuietPoint
  /\ calls.now < MaxTime
  /\ calls' = [calls EXCEPT !.now = @ + 1]
  /\ UNCHANGED <<parser, harness, server, ctx, session, pendingChunks, drain, trace>>

\* tickTimeout(ctx), run by the inactivity timer at the time it is set for or later
TickTimeout ==
  /\ QuietPoint
  /\ ctx.timeoutHandle # NoTimer /\ calls.now >= ctx.timeoutHandle
  /\ LET c == [ctx EXCEPT !.timeoutHandle = NoTimer]
         remaining == server.options.socketTimeout - (calls.now - ctx.lastActivity)
     IN IF ctx.closed \/ ctx.closing
        THEN ctx' = c /\ UNCHANGED trace
        ELSE IF remaining <= 0
        THEN /\ ctx' = BuildResponse(c, 421)
             /\ trace' = [trace EXCEPT !.code = 421, !.timeouts = @ + 1,
                                        !.enh = getEnhancedCode(421, NO_CONTEXT),
                                        !.enhClass = EnhancedClass(421, NO_CONTEXT)]
        ELSE /\ ctx' = [c EXCEPT !.timeoutHandle = calls.now + remaining]
             /\ UNCHANGED trace
  /\ UNCHANGED <<parser, harness, server, session, pendingChunks, drain, calls>>

\* a checkDone that gives up once the closeTimeout timer has fired
NotifyOnlyBeforeTimeout(sv) ==
  IF sv.closeCheckFn /\ sv.connections = {} /\ sv.closeTimeout
  THEN [sv EXCEPT !.closeCheckFn = FALSE, !.closeTimeout = FALSE,
                  !.closeEmitted = @ + 1]
  ELSE sv

\* a checkDone that stays installed after it has emitted 'close'
NotifyKeepingCheck(sv) ==
  IF sv.closeCheckFn /\ sv.connections = {}
  THEN [sv EXCEPT !.closeTimeout = FALSE, !.closeEmitted = @ + 1]
  ELSE sv

\* checkDone of SMTPServer.close, which _notifyConnectionClosed calls
NotifyConnectionClosed(sv) ==
  IF sv.closeCheckFn /\ sv.connections = {}
  THEN [sv EXCEPT !.closeCheckFn = FALSE, !.closeTimeout = FALSE,
                  !.closeEmitted = @ + 1]
  ELSE sv

\* a handleClose that does not look at ctx.closed
AlreadyClosedNever(c) == FALSE

\* if (ctx.closed) return
AlreadyClosed(c) == c.closed

\* handleClose(ctx)
handleClose ==
  /\ parser' = [parser EXCEPT !.isClosed = TRUE]
  /\ LET sv == [server EXCEPT !.connections = @ \ {"ctx"}]
         k == IF ctx.dataController THEN [calls EXCEPT !.stream = "errored"] ELSE calls
         c == [ctx EXCEPT !.dataController = FALSE]
     IN IF AlreadyClosed(ctx)
        THEN server' = sv /\ calls' = k /\ ctx' = c
        ELSE /\ ctx' = [c EXCEPT !.closed = TRUE, !.closing = FALSE]
             /\ calls' = [k EXCEPT !.onClose = @ + 1]
             /\ server' = IF sv.closing THEN NotifyConnectionClosed(sv) ELSE sv
  /\ trace' = [trace EXCEPT !.closeEvents = @ + 1]
  /\ UNCHANGED <<harness, session, pendingChunks, drain>>

\* The socket's close event, delivered for the first time: the socket closes
\* after the server has ended it or after the client has sent its last chunk
HandleClose ==
  /\ QuietPoint
  /\ ~ctx.closed
  /\ ctx.closing \/ trace.arrivals = MaxChunks \/ calls.connect = "refused"
  /\ handleClose

\* the close event delivered again (the raw socket's and the TLS socket's)
HandleCloseAgain ==
  /\ QuietPoint
  /\ ctx.closed
  /\ trace.closeEvents < MaxCloseEvents
  /\ handleClose

\* handleClose of the server's other connection
PeerClose ==
  /\ QuietPoint
  /\ server.peer.opened /\ ~server.peer.closed
  /\ LET sv == [server EXCEPT !.connections = @ \ {"peer"},
                              !.peer = [@ EXCEPT !.closing = FALSE, !.closed = TRUE]]
     IN server' = IF sv.closing THEN NotifyConnectionClosed(sv) ELSE sv
  /\ UNCHANGED <<parser, harness, ctx, session, pendingChunks, drain, calls, trace>>

\* SMTPServer.close(callback)
ServerClose ==
  /\ QuietPoint
  /\ ~server.closing
  /\ server' = IF server.connections = {}
               THEN [server EXCEPT !.closing = TRUE, !.listening = FALSE,
                                   !.closeScheduled = TRUE]
               ELSE [server EXCEPT !.closing = TRUE, !.listening = FALSE,
                                   !.closeTimeout = TRUE, !.closeCheckFn = TRUE]
  /\ UNCHANGED <<parser, harness, ctx, session, pendingChunks, drain, calls, trace>>

\* the setImmediate of close(): emit('close'); callback()
EmitClose ==
  /\ QuietPoint
  /\ server.closeScheduled
  /\ server' = [server EXCEPT !.closeScheduled = FALSE, !.closeEmitted = @ + 1]
  /\ UNCHANGED <<parser, harness, ctx, session, pendingChunks, drain, calls, trace>>

\* the closeTimeout timer of close(): every remaining connection is written
\* "421 Server shutting down" and closeSocket is called on it
CloseTimeout ==
  /\ QuietPoint
  /\ server.closeTimeout
  /\ server' = [server EXCEPT
                  !.closeTimeout = FALSE,
                  !.peer = IF "peer" \in server.connections /\ ~@.closed
                           THEN [@ EXCEPT !.closing = TRUE] ELSE @]
  /\ IF "ctx" \in server.connections
     THEN /\ ctx' = CloseSocket(ctx)
          /\ trace' = [trace EXCEPT !.code = 421, !.enh = FALSE, !.enhClass = 0]
     ELSE UNCHANGED <<ctx, trace>>
  /\ UNCHANGED <<parser, harness, session, pendingChunks, drain, calls>>

Init ==
  /\ \E options \in ServerOptions : ConnInit(options)
  /\ parser = NewParser
  /\ harness = NewHarness(<< >>, 0)

Next ==
  \/ SocketData \/ ProcessChunk \/ LineBreak \/ DrainDone
  \/ ProcessLineRefused \/ ProcessLineUpgrading \/ ProcessLineNextHandler
  \/ EHLO \/ STARTTLS \/ AUTH \/ MAIL \/ RCPT \/ DATA \/ NOOP \/ QUIT
  \/ AuthCallback \/ MailFromCallback \/ RcptToCallback \/ DataCallback
  \/ ConnectionReady \/ TlsOpen \/ SecureCallback \/ ImmediateClose \/ HandleClose

Spec == Init /\ [][Next]_vars

\* ---- The connection of one mail session (SpecSession) ------------------------

\* the chunks of a client that authenticates, sends mail and resets
SessionChunks ==
  { Line(EHLO_LINE), Line(MAIL_LINE), Line(RCPT_LINE), Line(RCPT_UPPER_LINE),
    Line(DATA_LINE), Line(RSET_LINE), Line(AUTH_PLAIN_LINE),
    BODY_END, BODY_LONG,
    Line(EHLO_LINE) \o Line(MAIL_LINE) \o Line(RCPT_LINE) \o Line(DATA_LINE) }

\* a server that takes mail without AUTH and limits its size, and one that
\* asks for AUTH and takes it on a plaintext connection
SessionOptions ==
  { [DefaultOptions EXCEPT !.authOptional = TRUE, !.size = MaxSize],
    [DefaultOptions EXCEPT !.allowInsecureAuth = TRUE] }

InitSession ==
  /\ \E options \in SessionOptions : ConnInit(options)
  /\ parser = NewParser
  /\ harness = NewHarness(<< >>, 0)

SessionData == Receive(SessionChunks)

NextSession ==
  \/ SessionData \/ ProcessChunk \/ LineBreak \/ DrainDone
  \/ ProcessLineRefused
  \/ EHLO \/ AUTH \/ MAIL \/ RCPT \/ DATA \/ RSET
  \/ AuthCallback \/ MailFromCallback \/ RcptToCallback \/ DataCallback
  \/ ConnectionReady \/ ImmediateClose \/ HandleClose

SpecSession == InitSession /\ [][NextSession]_vars

\* ---- Properties of the connection (Spec) ------------------------------------

\* C1: the replies are written in the order the lines were parsed: once a
\* reply to line n has been written, no reply to an earlier line is written,
\* also when the embedding calls back asynchronously.
C1_RepliesInOrder == [][trace'.line >= trace.line]_vars

\* C1 happens: onRcptTo called back late and its reply went out while later
\* lines of the same chunk and a later chunk were waiting
C1_Witness ==
  /\ trace.last.rule = "callback" /\ trace.last.invoked = "onRcptTo"
  /\ trace.line = trace.last.n /\ trace.code = 250
  /\ drain.lines # << >> /\ drain.i < Len(pendingChunks)

\* AUTH is enabled and authOptional is false
AuthIsRequired == isSupported("AUTH") /\ ~server.options.authOptional

\* processLine gets as far as its authentication rule with the line, and the
\* socket takes the reply
ReachesAuthRule(c) ==
  /\ c.ready /\ ~c.upgrading /\ c.nextHandler = "none" /\ ~server.closing
  /\ c.unauthCmds + 1 < server.options.maxAllowedUnauthenticatedCommands
  /\ c.hostNameAppearsAs # ""
  /\ Writable(c)

HandlerStep(cmd) == Handles(cmd) /\ trace'.last.n = Cur.n

\* C5: onData is invoked only when the envelope has an accepted sender and at
\* least one recipient; the RCPT handler answers 503 when no sender is set,
\* the DATA handler answers 503 when the recipient list is empty, the MAIL
\* handler answers 503 when a sender is already set, and none of the three
\* invokes its callback then.
C5_EnvelopeOrder ==
  [][ /\ (trace'.last.invoked = "onData" /\ trace'.last.rule = "handler"
            /\ trace'.last # trace.last)
         => session.envelope.mailFrom /\ Len(session.envelope.rcptTo) >= 1
      /\ ( \/ HandlerStep("RCPT") /\ ParsesAs("RCPT TO", Cur.line)
                /\ ~session.envelope.mailFrom
           \/ HandlerStep("DATA") /\ Len(session.envelope.rcptTo) = 0
           \/ HandlerStep("MAIL") /\ ParsesAs("MAIL FROM", Cur.line)
                /\ session.envelope.mailFrom )
         => /\ trace'.last.invoked = "none"
            /\ calls'.cb = calls.cb
            /\ session'.envelope = session.envelope
            /\ Writable(ctx) => trace'.last.code = 503 /\ trace'.code = 503
    ]_vars

\* C5 happens: DATA was accepted with a sender and a recipient and onData is
\* reading the stream
C5_Witness ==
  /\ calls.cb = "onData" /\ calls.stream = "open"
  /\ session.envelope.mailFrom /\ Len(session.envelope.rcptTo) = 1
  /\ trace.last.cmd = "DATA" /\ trace.last.code = 354

\* C6: when an embedding callback throws instead of calling back, the error
\* is caught, the line gets an error reply, and the connection goes on
\* processing.
C6_ThrowIsCaught ==
  trace.last.threw => trace.last.code >= 400 /\ drain.pc # "dead"

\* C7: once STARTTLS has succeeded (the handshake is done and onSecure has
\* called back without error) hostNameAppearsAs and openingCommand are empty,
\* session.user is unset and the envelope is empty.
C7_StartTlsResets ==
  trace.last.cmd = "onSecure" =>
    /\ ctx.hostNameAppearsAs = "" /\ session.hostNameAppearsAs = ""
    /\ ctx.openingCommand = "" /\ session.openingCommand = ""
    /\ ~session.user
    /\ ~session.envelope.mailFrom /\ session.envelope.rcptTo = << >>

\* the AUTH handler neither wrote 334, nor installed a continuation, nor
\* invoked onAuth
NoExchangeStarted ==
  /\ trace'.last.code # 334 /\ trace'.code # 334
  /\ ctx'.nextHandler = "none"
  /\ trace'.last.invoked = "none" /\ calls'.cb = calls.cb

C9_RemainderFirst ==
  \A k \in drain.i + 1 .. Len(pendingChunks) :
    pendingChunks[k].rem => trace.maxArr <= pendingChunks[k].arr

\* ---- The connection from open to close, and the server's close() -------------

\* the chunks of a client that greets, idles and quits
ConnectChunks == {Line(EHLO_LINE), Line(NOOP_LINE), Line(QUIT_LINE)}

\* a plaintext server and an implicitly secure one
ConnectOptions ==
  { [DefaultOptions EXCEPT !.authOptional = TRUE],
    [DefaultOptions EXCEPT !.authOptional = TRUE, !.secure = TRUE] }

\* the connection alone on the server, or with a second connection
InitConnect ==
  /\ \E options \in ConnectOptions, connections \in {{"ctx"}, {"ctx", "peer"}} :
       ConnInitWith(options, connections)
  /\ parser = NewParser
  /\ harness = NewHarness(<< >>, 0)

ConnectData == Receive(ConnectChunks)

\* the synchronous code of the connection, which runs to its next await
DrainStep ==
  \/ ProcessChunk \/ DrainDone \/ ProcessLineRefused \/ EHLO \/ NOOP \/ QUIT

NextConnect ==
  \/ ConnectData \/ DrainStep
  \/ ReadyTimer \/ ConnectCallback \/ InitialSecureCallback
  \/ ImmediateClose \/ HandleClose \/ HandleCloseAgain \/ PeerClose
  \/ ServerClose \/ EmitClose \/ CloseTimeout

SpecConnect == InitConnect /\ [][NextConnect]_vars

\* Code that can run does run; a timer that is armed fires; a socket that was
\* ended delivers its close event.
Fairness ==
  /\ WF_vars(DrainStep)
  /\ WF_vars(ImmediateClose)
  /\ WF_vars(EmitClose)
  /\ WF_vars(CloseTimeout)
  /\ WF_vars(ctx.closing /\ HandleClose)
  /\ WF_vars(server.peer.closing /\ PeerClose)

SpecConnectFair == SpecConnect /\ Fairness

\* ---- The listener: connections open and close (SpecListen) --------------------

\* a server without a limit on its clients and one that takes a single client
ListenOptions ==
  { [DefaultOptions EXCEPT !.authOptional = TRUE],
    [DefaultOptions EXCEPT !.authOptional = TRUE, !.maxClients = 1] }

\* a listening server no client has connected to yet
InitListen ==
  /\ \E options \in ListenOptions : server = NewServer(options, {})
  /\ ctx = NewContext
  /\ session = NewSession
  /\ pendingChunks = << >>
  /\ drain = IdleDrain
  /\ calls = [NoCallsPending EXCEPT !.connect = "unopened"]
  /\ trace = NewTrace
  /\ parser = NewParser
  /\ harness = NewHarness(<< >>, 0)

\* an open() that takes every client
TooManyClientsNever(sv) == FALSE

\* server.options.maxClients && server.connections.size > server.options.maxClients
TooManyClients(sv) ==
  sv.options.maxClients # 0 /\ Cardinality(sv.connections) > sv.options.maxClients

\* socket.open(socket) for the connection of the model
SocketOpen ==
  /\ server.listening
  /\ calls.connect = "unopened"
  /\ LET sv == [server EXCEPT !.connections = @ \cup {"ctx"}]
     IN IF TooManyClients(sv)
        THEN \* socket.write(<421 Too many connected clients>); socket.end()
             /\ server' = [sv EXCEPT !.connections = @ \ {"ctx"}]
             /\ calls' = [calls EXCEPT !.connect = "refused"]
             /\ trace' = [trace EXCEPT !.code = 421]
        ELSE \* initConnection(ctx)
             /\ server' = sv
             /\ calls' = [calls EXCEPT !.connect = "timer"]
             /\ UNCHANGED trace
  /\ LET c == [NewContext EXCEPT !.secure = server.options.secure]
     IN ctx' = IF TooManyClients([server EXCEPT !.connections = @ \cup {"ctx"}])
               THEN c ELSE ResetTimeout(c, calls.now)
  /\ session' = [NewSession EXCEPT !.secure = server.options.secure]
  /\ UNCHANGED <<parser, harness, pendingChunks, drain>>

\* socket.open(socket) for the server's other connection
PeerOpen ==
  /\ server.listening
  /\ ~server.peer.opened
  /\ LET sv == [server EXCEPT !.connections = @ \cup {"peer"}, !.peer.opened = TRUE]
     IN server' = IF TooManyClients(sv)
                  THEN [sv EXCEPT !.connections = @ \ {"peer"}]
                  ELSE sv
  /\ UNCHANGED <<parser, harness, ctx, session, pendingChunks, drain, calls, trace>>

\* the client sends once its socket is open
ListenData == calls.connect # "unopened" /\ Receive(ConnectChunks)

NextListen ==
  \/ SocketOpen \/ PeerOpen \/ ListenData \/ DrainStep
  \/ ReadyTimer \/ ConnectCallback
  \/ ImmediateClose \/ HandleClose \/ PeerClose
  \/ ServerClose \/ EmitClose \/ CloseTimeout

SpecListen == InitListen /\ [][NextListen]_vars

\* ---- The connection and its inactivity timer (SpecTimeout) --------------------

\* the chunks of a client that sends a message slowly: the commands up to DATA
\* at once, then pieces of the body
TimeoutChunks ==
  { Line(EHLO_LINE) \o Line(MAIL_LINE) \o Line(RCPT_LINE) \o Line(DATA_LINE),
    BODY_LONG }

InitTimeout ==
  /\ ConnInit([DefaultOptions EXCEPT !.authOptional = TRUE])
  /\ parser = NewParser
  /\ harness = NewHarness(<< >>, 0)

TimeoutData == Receive(TimeoutChunks)

NextTimeout ==
  \/ TimeoutData \/ ProcessChunk \/ DrainDone
  \/ ProcessLineRefused \/ EHLO \/ MAIL \/ RCPT \/ DATA
  \/ MailFromCallback \/ RcptToCallback
  \/ ConnectionReady \/ ImmediateClose \/ HandleClose
  \/ Tick \/ TickTimeout

SpecTimeout == InitTimeout /\ [][NextTimeout]_vars

\* ---- The connection and its command limits (SpecLimits) -----------------------

\* five unrecognised commands in one chunk
FOO_LINES ==
  Line(FOO_LINE) \o Line(FOO_LINE) \o Line(FOO_LINE) \o Line(FOO_LINE) \o Line(FOO_LINE)

\* the chunks of a client that sends unrecognised commands around a message
LimitsChunks ==
  { FOO_LINES, Line(NOOP_LINE), BODY_END,
    Line(EHLO_LINE) \o Line(MAIL_LINE) \o Line(RCPT_LINE) \o Line(DATA_LINE) }

\* the limit of unauthenticated commands of the servers that have one
MaxUnauth == 2

\* a server that takes mail without AUTH, one that asks for AUTH and allows
\* few commands before it, and one that asks for AUTH and has no such limit
LimitsOptions ==
  { [DefaultOptions EXCEPT !.authOptional = TRUE],
    [DefaultOptions EXCEPT !.maxAllowedUnauthenticatedCommands = MaxUnauth],
    [DefaultOptions EXCEPT !.maxAllowedUnauthenticatedCommands = OptionFalse,
                           !.hideENHANCEDSTATUSCODES = FALSE] }

InitLimits ==
  /\ \E options \in LimitsOptions : ConnInit(options)
  /\ parser = NewParser
  /\ harness = NewHarness(<< >>, 0)

LimitsData == Receive(LimitsChunks)

NextLimits ==
  \/ LimitsData \/ ProcessChunk \/ LineBreak \/ DrainDone
  \/ ProcessLineRefused \/ EHLO \/ MAIL \/ RCPT \/ DATA \/ NOOP
  \/ MailFromCallback \/ RcptToCallback \/ DataCallback
  \/ ConnectionReady \/ ImmediateClose \/ HandleClose

SpecLimits == InitLimits /\ [][NextLimits]_vars

\* ---- The servers with needsUpgrade, XOAUTH2 and XCLIENT (SpecFeatures) ---------

\* the chunks of a client that authenticates with XOAUTH2 or through XCLIENT,
\* the XCLIENT line pipelined with the line after it
FeaturesChunks ==
  { Line(EHLO_LINE), Line(HELO_LINE), Line(MAIL_LINE), Line(AUTH_XOAUTH2_LINE),
    Line(XCLIENT_LINE) \o Line(NOOP_LINE), Line(NOOP_LINE) }

FeaturesOptions ==
  { [DefaultOptions EXCEPT !.authOptional = TRUE, !.needsUpgrade = TRUE],
    [DefaultOptions EXCEPT !.authOptional = TRUE, !.allowInsecureAuth = TRUE,
                           !.authMethods = {"XOAUTH2"}, !.useXClient = TRUE] }

InitFeatures ==
  /\ \E options \in FeaturesOptions : ConnInit(options)
  /\ parser = NewParser
  /\ harness = NewHarness(<< >>, 0)

FeaturesData == Receive(FeaturesChunks)

NextFeatures ==
  \/ FeaturesData \/ ProcessChunk \/ DrainDone
  \/ ProcessLineRefused \/ ProcessLineNextHandler
  \/ EHLO \/ HELO \/ AUTH \/ MAIL \/ NOOP \/ XCLIENT
  \/ XOAuth2Callback \/ XClientCallback \/ MailFromCallback
  \/ ConnectionReady \/ ImmediateClose \/ HandleClose

SpecFeatures == InitFeatures /\ [][NextFeatures]_vars

\* ---- The connection of a client that authenticates in steps (SpecAuth) ---------

ABORT_LINE == "*"

\* the chunks of a client that answers the challenges of AUTH LOGIN, one line
\* a chunk or all at once
AuthChunks ==
  { Line(EHLO_LINE), Line(AUTH_LOGIN_LINE), Line(TOKEN_LINE), Line(ABORT_LINE),
    Line(NOOP_LINE),
    Line(AUTH_LOGIN_LINE) \o Line(TOKEN_LINE) \o Line(TOKEN_LINE) }

InitAuth ==
  /\ ConnInit([DefaultOptions EXCEPT !.allowInsecureAuth = TRUE])
  /\ parser = NewParser
  /\ harness = NewHarness(<< >>, 0)

AuthData == Receive(AuthChunks)

NextAuth ==
  \/ AuthData \/ ProcessChunk \/ DrainDone
  \/ ProcessLineRefused \/ ProcessLineNextHandler
  \/ EHLO \/ AUTH \/ NOOP \/ AuthCallback
  \/ ConnectionReady \/ ImmediateClose \/ HandleClose

SpecAuth == InitAuth /\ [][NextAuth]_vars

\* ---- The connection of a client that upgrades to TLS (SpecStartTls) ------------

\* what the client sends before the handshake: commands, and STARTTLS with the
\* next command, whole or in part, in the same chunk
PlainChunks ==
  { Line(EHLO_LINE), Line(STARTTLS_LINE), Line(STARTTLS_LINE) \o Line(NOOP_LINE),
    Line(STARTTLS_LINE) \o <<PLAIN_PART>> }

\* what the client sends over TLS
TlsChunks == { Line(EHLO_LINE), Line(TLS_PART) }

InitStartTls ==
  /\ ConnInit([DefaultOptions EXCEPT !.authOptional = TRUE])
  /\ parser = NewParser
  /\ harness = NewHarness(<< >>, 0)

StartTlsData == Receive(IF ctx.secure THEN TlsChunks ELSE PlainChunks)

NextStartTls ==
  \/ StartTlsData \/ ProcessChunk \/ DrainDone
  \/ ProcessLineRefused \/ ProcessLineUpgrading
  \/ EHLO \/ STARTTLS \/ NOOP \/ TlsOpen \/ SecureCallback
  \/ ConnectionReady \/ ImmediateClose \/ HandleClose

SpecStartTls == InitStartTls /\ [][NextStartTls]_vars

\* ---- The connection of a client that sends MAIL with parameters (SpecMail) -----

MailChunks ==
  { Line(EHLO_LINE), Line(MAIL_LINE), Line(MAIL_8BIT_LINE), Line(MAIL_BINARY_LINE),
    Line(MAIL_SIZE_LINE), Line(RSET_LINE) }

\* a server that limits the message size and shows enhanced status codes
InitMail ==
  /\ ConnInit([DefaultOptions EXCEPT !.authOptional = TRUE, !.size = MaxSize,
                                     !.hideENHANCEDSTATUSCODES = FALSE])
  /\ parser = NewParser
  /\ harness = NewHarness(<< >>, 0)

MailData == Receive(MailChunks)

NextMail ==
  \/ MailData \/ ProcessChunk \/ DrainDone
  \/ ProcessLineRefused \/ EHLO \/ MAIL \/ RSET \/ MailFromCallback
  \/ ConnectionReady \/ ImmediateClose \/ HandleClose

SpecMail == InitMail /\ [][NextMail]_vars

\* ---- The connection of a client that pipelines (SpecPipelined) -----------------

\* the chunks of a client that sends the body, or more commands, in the chunk
\* of the command before
PipelinedChunks ==
  { Line(EHLO_LINE) \o Line(MAIL_LINE) \o Line(RCPT_LINE),
    Line(DATA_LINE) \o BODY_END, Line(DATA_LINE) \o <<OTHER_BYTE>>, BODY_END,
    Line(EHLO_LINE) \o Line(QUIT_LINE) \o Line(MAIL_LINE) }

InitPipelined ==
  /\ ConnInit([DefaultOptions EXCEPT !.authOptional = TRUE])
  /\ parser = NewParser
  /\ harness = NewHarness(<< >>, 0)

PipelinedData == Receive(PipelinedChunks)

NextPipelined ==
  \/ PipelinedData \/ ProcessChunk \/ LineBreak \/ DrainDone
  \/ ProcessLineRefused \/ EHLO \/ MAIL \/ RCPT \/ DATA \/ QUIT
  \/ MailFromCallback \/ RcptToCallback \/ DataCallback
  \/ ConnectionReady \/ ImmediateClose \/ HandleClose

SpecPipelined == InitPipelined /\ [][NextPipelined]_vars

\* ---- Properties of the mail session (SpecSession) ----------------------------

\* C11: when a size option is set and the body delivered so far exceeds it,
\* the body stream handed to onData has ended (it is closed while the parser
\* still waits for the terminator) and stream.sizeExceeded is true.
C11_StreamEndsEarly ==
  ( /\ server.options.size # 0
    /\ ~ctx.closed
    /\ parser.dataMode
    /\ parser.dataBytes > server.options.size )
  => calls.stream = "closed" /\ calls.sizeExceeded

C14_NoDuplicateRecipients ==
  /\ [](\A i, j \in 1 .. Len(session.envelope.rcptTo) :
          i # j => ToLowerCase(session.envelope.rcptTo[i])
                     # ToLowerCase(session.envelope.rcptTo[j]))
  /\ [][ ( /\ calls.cb = "onRcptTo" /\ calls'.cb = "none"
           /\ session'.envelope.rcptTo # session.envelope.rcptTo )
         => LET old == session.envelope.rcptTo
                new == session'.envelope.rcptTo
                matches(i) == ToLowerCase(old[i]) = ToLowerCase(calls.arg)
            IN IF \E i \in 1 .. Len(old) : matches(i)
               THEN /\ Len(new) = Len(old)
                    /\ \A i \in 1 .. Len(old) :
                         new[i] = IF matches(i) THEN calls.arg ELSE old[i]
               ELSE new = Append(old, calls.arg) ]_vars

\* C14 happens: an accepted RCPT replaced the entry that spelled the same
\* address in the other case, and the list still has one entry
C14_Witness ==
  /\ trace.respelled
  /\ Len(session.envelope.rcptTo) = 1
  /\ trace.last.cmd = "RCPT" /\ trace.last.rule = "callback"

ReachesHeloRule(c) ==
  /\ c.ready /\ ~c.upgrading /\ ~server.closing
  /\ ~( /\ CountsUnauth(c, session, CommandName(Cur.line))
        /\ c.unauthCmds + 1 >= server.options.maxAllowedUnauthenticatedCommands )
  /\ Writable(c)

C18_CloseDuringData ==
  [][ /\ (~ctx.closed /\ ctx'.closed /\ parser.dataMode /\ calls.stream = "open")
         => calls'.stream = "errored" /\ ~ctx'.dataController
      /\ (calls.cb = "onData" /\ calls.stream = "errored" /\ calls'.cb = "none")
         => /\ trace'.line = trace.line /\ trace'.code = trace.code
            /\ trace'.last.code = 0
    ]_vars

\* C18 happens: the socket closed in the middle of a body, onData has called
\* back since, and the last thing written is still the 354
C18_Witness ==
  /\ ctx.closed /\ parser.dataMode /\ parser.isClosed
  /\ trace.last.rule = "callback" /\ trace.last.invoked = "onData"
  /\ trace.last.code = 0
  /\ trace.line = trace.last.n /\ trace.code = 354
  /\ calls.cb = "none"

\* ---- Properties of the connection from open to close (SpecConnect) ------------

\* C15: the connection is ready (and greeted with 220) only after onConnect has
\* accepted it and, on an implicitly secure socket, onSecure has accepted it;
\* when onConnect rejects, 554 is written, the socket is closed by the server,
\* the connection never becomes ready and no line of it reaches a handler.
C15_ReadyAfterConnect ==
  /\ [](ctx.ready => /\ trace.onConnect = "accepted"
                     /\ server.options.secure => trace.onSecure = "accepted")
  /\ [](trace.onConnect = "rejected" =>
          ~ctx.ready /\ (ctx.closing \/ ctx.closed) /\ ~trace.last.handled)
  /\ [][ (trace.onConnect = "" /\ trace'.onConnect = "rejected" /\ Writable(ctx))
         => trace'.code = 554 ]_vars

\* C19: onClose is invoked exactly once after the socket's first close event,
\* however many close events are delivered; from the first close event on the
\* parser is closed, it is not changed any more, and every feed of it returns
\* nothing and makes no callback.
C19_OnCloseOnce ==
  /\ [](calls.onClose = IF trace.closeEvents > 0 THEN 1 ELSE 0)
  /\ [](trace.closeEvents > 0 =>
          /\ ctx.closed /\ parser.isClosed
          /\ Flush(parser).lines = << >>
          /\ \A chunk \in ConnectChunks :
               /\ FeedCommandMode(parser, chunk) = [p |-> parser, lines |-> << >>]
               /\ FeedDataMode(parser, chunk) = NoCalls(parser))
  /\ [][trace.closeEvents > 0 => parser' = parser /\ trace'.lines = trace.lines]_vars

\* C19 happens: the close event was delivered twice, after lines of the client
\* had been parsed
C19_Witness ==
  /\ trace.closeEvents = MaxCloseEvents
  /\ calls.onClose = 1
  /\ ctx.closed /\ parser.isClosed
  /\ trace.lines >= 1

\* ---- Properties of the server's close() (SpecConnectFair) ---------------------

\* C20: once server.close() has been called the 'close' event is eventually
\* emitted (and the callback called); when the closeTimeout timer fires, every
\* connection that remains is written 421 and closeSocket is called on it.
C20_CloseIsEmitted ==
  /\ server.closing ~> server.closeEmitted >= 1
  /\ [][ (server.closeTimeout /\ ~server'.closeTimeout /\ server'.closeCheckFn)
         => /\ "ctx" \in server.connections =>
                 trace'.code = 421 /\ (ctx'.closing \/ ctx'.closed)
            /\ "peer" \in server.connections =>
                 server'.peer.closing \/ server'.peer.closed ]_vars

\* C20 happens: close() was called with two live connections that did nothing,
\* the timer fired and wrote 421, both sockets closed, and 'close' was emitted
C20_Witness ==
  /\ server.closing /\ server.closeEmitted = 1
  /\ server.connections = {} /\ ~server.closeTimeout /\ ~server.closeCheckFn
  /\ server.peer.closed /\ ctx.closed
  /\ trace.arrivals = 0 /\ trace.code = 421

\* ---- Properties of the listener (SpecListen) ------------------------------------

\* C21: for one call of server.close() the 'close' event is emitted at most
\* once, and the step that emits it leaves (and, on a connection's close,
\* makes) the set of live connections empty; once close() has been called no
\* connection is added to the set.
C21_CloseEmittedOnce ==
  /\ [](server.closeEmitted <= 1)
  /\ [][ /\ server'.closeEmitted # server.closeEmitted => server'.connections = {}
         /\ server.closing => server'.connections \subseteq server.connections ]_vars

\* C21 happens: close() was called while connections were live; every socket
\* has closed since, the last of them emptied the set, and 'close' was
\* emitted once
C21_Witness ==
  /\ server.closing /\ server.closeEmitted = 1 /\ server.connections = {}
  /\ server.peer.closed /\ ctx.closed
  /\ ~server.closeCheckFn /\ ~server.closeTimeout

\* C22: with maxClients = M > 0 the set of live connections never holds more
\* than M contexts once an open event has been handled; a connection opened
\* while M are live is written 421, its socket is ended in the same step, it
\* is not added to the set, and it is never initialised: connectionReady does
\* not run for it, onConnect is not invoked, no greeting is written and it
\* never becomes ready.
C22_MaxClients ==
  /\ [](server.options.maxClients # 0
          => Cardinality(server.connections) <= server.options.maxClients)
  /\ [][ ( /\ calls.connect = "unopened" /\ calls'.connect # "unopened"
           /\ server.options.maxClients # 0
           /\ Cardinality(server.connections) = server.options.maxClients )
         => /\ trace'.code = 421
            /\ calls'.connect = "refused"
            /\ "ctx" \notin server'.connections ]_vars
  /\ [](calls.connect = "refused"
          => ~ctx.ready /\ trace.onConnect = "" /\ trace.code # 220)
  /\ [][calls.connect = "refused" => calls'.connect = "refused"]_vars

\* C22 happens: the connection was opened while the one client the server
\* takes was live; it was turned away, sent a line since, and its socket has
\* closed
C22_Witness ==
  /\ server.options.maxClients = 1
  /\ calls.connect = "refused" /\ ctx.closed /\ ~ctx.ready
  /\ server.connections = {"peer"}
  /\ trace.arrivals >= 1 /\ trace.code = 421

\* ---- Properties of the inactivity timer (SpecTimeout) ---------------------------

\* C23: "421 Timeout" is written only when no chunk has arrived on the
\* connection during the socketTimeout interval that precedes it, whether the
\* chunk carried commands or bytes of a DATA body; a timer that fires sooner
\* after the latest chunk writes nothing and sets itself for the rest of the
\* interval.
C23_TimeoutOnlyWhenIdle ==
  [][ /\ trace'.timeouts # trace.timeouts
         => calls.now - trace.arrivedAt >= server.options.socketTimeout
      /\ ( /\ ctx.timeoutHandle # NoTimer /\ ctx'.timeoutHandle # ctx.timeoutHandle
           /\ ~ctx.closed /\ ~ctx.closing
           /\ calls.now - trace.arrivedAt < server.options.socketTimeout )
         => /\ trace'.timeouts = trace.timeouts
            /\ ctx'.timeoutHandle = trace.arrivedAt + server.options.socketTimeout
    ]_vars

\* ---- Properties of the command limits (SpecLimits) ------------------------------

\* processLine takes the current line as a command the server does not support
UnknownCommandTaken ==
  /\ Running
  /\ ctx.ready /\ ~ctx.upgrading /\ ctx.nextHandler = "none" /\ ~server.closing
  /\ ~isSupported(CommandName(Cur.line))

C25_UnauthenticatedLimit ==
  /\ [][ ( /\ Running
           /\ trace'.last.n = Cur.n /\ trace'.last.rule = "unauthLimit" )
         => ctx.unauthCmds >= server.options.maxAllowedUnauthenticatedCommands ]_vars
  /\ [](server.options.maxAllowedUnauthenticatedCommands = OptionFalse
          => trace.last.rule # "unauthLimit")

\* ---- Properties of the replies (SpecSession) -------------------------------------

\* C26: the reply written last carries an enhanced status code exactly when
\* hideENHANCEDSTATUSCODES is off, its code is not 3xx and the command it
\* answers is not HELO, EHLO or LHLO; so no reply carries one while
\* hideENHANCEDSTATUSCODES is on.
C26_EnhancedCodes ==
  (trace.code # 0 /\ trace.line = trace.last.n)
    => trace.enh = ( /\ ~server.options.hideENHANCEDSTATUSCODES
                     /\ ~(trace.code >= 300 /\ trace.code < 400)
                     /\ trace.last.cmd \notin SKIPPED_ENHANCED_COMMANDS )

\* the transmission type that the session's own fields call for
DerivedType(s) ==
  LET base == IF server.options.lmtp THEN "LMTP" ELSE "SMTP"
  IN (IF s.openingCommand \in {"EHLO", "LHLO"} THEN "E" ELSE "")
       \o base
       \o (IF s.secure THEN "S" ELSE "")
       \o (IF s.user THEN "A" ELSE "")

\* C27: whenever onMailFrom, onRcptTo or onData is pending, and so can look at
\* the session, session.transmissionType is the value derived from the
\* session's current state: prefix E exactly when openingCommand is EHLO or
\* LHLO, LMTP exactly when the lmtp option is on, suffix S exactly when the
\* connection is secure, suffix A exactly when session.user is set.
C27_TransmissionType ==
  calls.cb \in {"onMailFrom", "onRcptTo", "onData"}
    => session.transmissionType = DerivedType(session)

\* ---- Properties of needsUpgrade, XOAUTH2 and XCLIENT (SpecFeatures) ----------------

\* C28: with needsUpgrade on, while the connection is not secure an AUTH or a
\* MAIL line taken by processLine invokes neither onAuth nor onMailFrom, and
\* once answered it is answered with a refusal.
C28_NeedsUpgrade ==
  ( /\ server.options.needsUpgrade /\ ~ctx.secure
    /\ trace.last.cmd \in {"AUTH", "MAIL"} )
    => /\ trace.last.invoked \notin {"onAuth", "onMailFrom"}
       /\ calls.cb \notin {"onAuth", "onMailFrom"}
       /\ trace.last.code \in {0} \cup (400 .. 599)

\* C29: when onAuth calls back for XOAUTH2 without a user and with a data
\* object, be it beside an Error or not, the reply is 334 and the one-shot
\* continuation is installed; the line that meets that continuation is
\* answered 535 and the continuation is gone.
C29_XOAuth2Challenge ==
  /\ [][ ( /\ calls.cb = "onAuth" /\ calls.arg = "XOAUTH2"
           /\ trace'.last.rule = "callback" /\ trace'.last.n = calls.n
           /\ trace'.xoauth2 \in {"errorData", "failedData"} )
         => /\ trace'.last.code = 334
            /\ ctx'.nextHandler = "xoauth2Error" ]_vars
  /\ [][ ( /\ Running /\ ctx.ready /\ ~ctx.upgrading
           /\ ctx.nextHandler = "xoauth2Error"
           /\ trace'.last.n = Cur.n )
         => /\ trace'.last.code = 535
            /\ trace'.last.invoked = "none"
            /\ ctx'.nextHandler = "none" ]_vars

\* C30: processLine takes up a line only when no embedding callback invoked for
\* an earlier line is outstanding, and a chunk that arrives while a drain is in
\* flight is appended to the queue and nothing else happens.
C30_OneLineInFlight ==
  /\ [][ ( /\ Running
           /\ trace'.last.n = Cur.n /\ trace.last.n # Cur.n )
         => /\ calls.cb = "none"
            /\ calls.xclient = {} ]_vars
  /\ [][ ( /\ ctx.processing
           /\ trace'.arrivals = trace.arrivals + 1 )
         => /\ Len(pendingChunks') = Len(pendingChunks) + 1
            /\ SubSeq(pendingChunks', 1, Len(pendingChunks)) = pendingChunks
            /\ UNCHANGED <<ctx, session, drain, calls, parser>> ]_vars

\* ---- Properties of the chunk queue and the data-mode bypass (Spec) -----------------

\* C31: the parser consumes the chunks of the connection in arrival order:
\* while a chunk waits in the queue, no chunk that arrived after it has been
\* fed to the parser, in command mode or in data mode.
C31_ArrivalOrder ==
  \A k \in drain.i + 1 .. Len(pendingChunks) :
    trace.maxArr <= pendingChunks[k].arr

\* C32: while the DATA handler awaits onData and the body stream is open, every
\* chunk the server has received has been fed to the parser: none waits in the
\* queue behind the suspended drain, where the body terminator it may hold
\* could not end the stream that onData reads.
C32_BodyReachesUnstuffer ==
  (calls.cb = "onData" /\ calls.stream = "open")
    => drain.i >= Len(pendingChunks)

\* ---- Properties of pipelined chunks (SpecPipelined) --------------------------------

\* C33: while the DATA handler awaits onData, no line of the chunk that held
\* the DATA line is left in the line loop to be dispatched as a command: the
\* bytes that followed DATA in its chunk went to the message body.
C33_BodyAfterData ==
  calls.cb = "onData" => drain.lines = << >>

\* C36: once QUIT has been answered or a 421 reply has been built (the socket
\* is closing or its close is scheduled), no line taken by processLine is
\* dispatched to a command handler or makes an embedding callback be invoked.
C36_NothingAfterGoodbye ==
  [][ ( /\ ctx.closing \/ ctx.closeScheduled
        /\ Running
        /\ trace'.last.n = Cur.n /\ trace.last.n # Cur.n )
      => /\ ~trace'.last.handled
         /\ trace'.last.invoked = "none" ]_vars

\* ---- Properties of the SASL continuations (SpecAuth) --------------------------------

\* processLine takes up the line at the head of the line loop
LineTaken == Running /\ trace'.last.n = Cur.n /\ trace.last.n # Cur.n

WithoutCR(buf) ==
  IF Len(buf) > 0 /\ buf[Len(buf)] = CR THEN SubSeq(buf, 1, Len(buf) - 1) ELSE buf

RECURSIVE LinesOf(_)
\* buf split at every LF, one CR before the LF removed; the bytes after the
\* last LF are no line
LinesOf(buf) ==
  LET nl == IndexOf(buf, LF, 0)
  IN IF nl = -1 THEN << >>
     ELSE <<WithoutCR(Sub(buf, 0, nl))>> \o LinesOf(Sub(buf, nl + 1, Len(buf)))

RECURSIVE TailOf(_)
\* the bytes of buf after its last LF
TailOf(buf) ==
  LET nl == IndexOf(buf, LF, 0)
  IN IF nl = -1 THEN buf ELSE TailOf(Sub(buf, nl + 1, Len(buf)))

\* C35: however the byte string is cut into chunks, after each
\* feedCommandMode call the lines returned so far are the lines of the bytes
\* fed so far taken as one buffer, and the tail kept for flush() is that
\* buffer's unterminated tail; so the lines of a fragmented feed and the line
\* flush() returns are those of feeding the whole string at once.
C35_FragmentationInvariance ==
  LET fedBytes == Sub(harness.body, 0, harness.fed)
      whole == FeedCommandMode(NewParser, harness.body)
  IN /\ harness.lines = LinesOf(fedBytes)
     /\ ~harness.ended => parser.remainder = TailOf(fedBytes)
     /\ harness.fed = Len(harness.body) =>
          /\ harness.lines = whole.lines
          /\ ~harness.ended => parser.remainder = whole.p.remainder
          /\ harness.ended => harness.flushed = Flush(whole.p).lines

\* C35 happens: a string was fed byte by byte, so that a CR and its LF came in
\* different chunks, and flush() returned the unterminated tail
C35_Witness ==
  /\ harness.body = <<OTHER_BYTE, CR, LF, DOT>>
  /\ harness.feeds = 4 /\ harness.fed = 4 /\ harness.ended
  /\ harness.lines = <<(<<OTHER_BYTE>>)>>
  /\ harness.flushed = <<(<<DOT>>)>>

\* ---- Properties of the TLS upgrade (SpecStartTls, Spec) ----------------------------

\* the bytes of a line
BytesOf(line) == {line[i] : i \in 1 .. Len(line)}

\* C37: no line that processLine takes on the secured connection holds bytes
\* the client sent in plaintext before the handshake.
C37_NoPlaintextAfterTls ==
  [][ (LineTaken /\ ctx.secure) => PLAIN_PART \notin BytesOf(Cur.line) ]_vars

\* C38: while onSecure has not called back after the handshake, no line is
\* dispatched to a command handler.
C38_ResetBeforeCommands ==
  [][ (LineTaken /\ calls.onSecure) => ~trace'.last.handled ]_vars

\* ---- Properties of MAIL and of the enhanced status codes (SpecMail) ----------------

\* C39: a MAIL line that its handler answers with a refusal leaves the
\* envelope as it was, and so does a MAIL that onMailFrom rejects: the
\* envelope after the rejection is the one the handler found when it was
\* entered, without sender and recipients and with the bodyType of before.
C39_RejectedMailKeepsEnvelope ==
  /\ [][ (LineTaken /\ trace'.last.cmd = "MAIL" /\ trace'.last.code >= 400)
         => session'.envelope = session.envelope ]_vars
  /\ [][ ( /\ calls.cb = "onMailFrom"
           /\ trace'.last.rule = "callback" /\ trace'.last.n = calls.n
           /\ trace'.last.code >= 400 )
         => session'.envelope = [NewEnvelope EXCEPT !.bodyType = trace.bodyTypeBefore]
       ]_vars

\* C40: when the reply written last carries an enhanced status code, the first
\* digit of that code is the first digit of the reply code.
C40_EnhancedClass ==
  (trace.code # 0 /\ trace.enh) => trace.enhClass = trace.code \div 100

====
